---- MODULE Spec2Model ----
(***************************************************************************)
(* A model of the Nodalis/Imperium PLC runtime support library:            *)
(*   - the IEC address parser (parseAddress),                              *)
(*   - the 64x16 process image MEMORY and its typed accessors,             *)
(*   - bound references (RefVar),                                          *)
(*   - the standard function blocks,                                       *)
(*   - the I/O supervisor (mapIO, superviseIO, IOClient::poll),            *)
(*   - the scan loops of the generated programs (main, PROGRAM_COUNT),     *)
(*   - the BACnet request/acknowledge exchanges (performRead/Write).       *)
(* Addresses are modelled as the strings the code receives: sequences of   *)
(* one-character strings, parsed as the code's regular expression and      *)
(* std::stoi parse them.                                                   *)
(***************************************************************************)
EXTENDS Integers, Sequences, FiniteSets, TLC

VARIABLES
    mem,        \* MEMORY, as the map flat byte offset -> non-zero byte value
    bigEndian,  \* byte order of the host the program was built for
    last,       \* the accessor call that ran last, and how it ended
    nops,       \* number of accessor calls made so far
    pAddr,      \* parser run: the string handed to parseAddress
    pOut,       \* parser run: what the two parseAddress versions returned
    refs,       \* RefVar objects: address, element type, cache
    shadow,     \* ghost: per address, the value most recently written to it
    rlast,      \* the RefVar operation that ran last
    rops,       \* number of RefVar-run operations made so far
    tp,         \* the TP function block's fields
    now,        \* the value elapsed() returns
    tpg,        \* ghost: what the last TP evaluation sampled
    fb,         \* the function block of a function-block run, with its kind
    fbg,        \* ghost: what the last evaluation of fb sampled
    clients,    \* Clients, the registry of IOClient objects
    remote,     \* the remote modules, and the requests issued to them
    iog,        \* ghost: what the last superviseIO call examined
    PROGRAM_COUNT,  \* the scan counter of the generated main loop
    bacnet,     \* a BACNETClient object: invokeId, datalinkReady
    exchange    \* the performRead or performWrite call in progress

imageVars == <<mem, bigEndian, last, nops>>
parseVars == <<pAddr, pOut>>
refVars   == <<refs, shadow, rlast, rops>>
tpVars    == <<tp, now, tpg>>
fbVars    == <<fb, fbg>>
ioVars    == <<clients, remote, iog, PROGRAM_COUNT>>
bacVars   == <<bacnet, exchange>>
vars      == <<mem, bigEndian, last, nops, pAddr, pOut, refs, shadow, rlast,
               rops, tp, now, tpg, fb, fbg, clients, remote, iog,
               PROGRAM_COUNT, bacnet, exchange>>

----------------------------------------------------------------------------
(* Bounds of the model *)

\* accessor calls per run of the image specification
MaxOps == 2

\* evaluations per run of the function-block specification
MaxEvals == 4

\* mapIO calls per run of the supervisor specification
MaxMaps == 2

\* mapIO calls per run of the registration specification
MaxCalls == 3

\* superviseIO calls per run of the supervisor specification
MaxScans == 3

\* ms the supervisor specification runs on after the first connect() is due
MaxWait == 3

\* operations per run of the RefVar specification
MaxRefOps == 4

\* the clock value up to which the function-block runs are followed
MaxTime == 7

----------------------------------------------------------------------------
(* Program constants *)

\* MEMORY[64][16]: rows, columns, bytes per 64-bit cell
Rows == 64
Cols == 16
CellBytes == 8
MemBytes == Rows * Cols * CellBytes

\* enum MEMORY_SPACE
SpaceI == 0
SpaceQ == 1
SpaceM == 2

\* the null pointer getMemoryByte starts from
NullPtr == -1

----------------------------------------------------------------------------
(* Strings *)

Digit == <<"0", "1", "2", "3", "4", "5", "6", "7", "8", "9">>

IsDigit(c) == \E d \in 1..10 : Digit[d] = c

DigitValue(c) == (CHOOSE d \in 1..10 : Digit[d] = c) - 1

\* std::tolower on one character of the address alphabet
toLowerCase(c) ==
    CASE c = "I" -> "i" [] c = "Q" -> "q" [] c = "M" -> "m"
      [] c = "X" -> "x" [] c = "B" -> "b" [] c = "W" -> "w"
      [] c = "D" -> "d" [] c = "L" -> "l"
      [] OTHER -> c

\* std::stoi on a string of decimal digits
RECURSIVE stoi(_)
stoi(s) ==
    IF Len(s) = 0 THEN 0
    ELSE 10 * stoi(SubSeq(s, 1, Len(s) - 1)) + DigitValue(s[Len(s)])

\* the decimal text of a natural number (used to build the input strings)
RECURSIVE Decimal(_)
Decimal(n) ==
    IF n < 10 THEN <<Digit[n + 1]>>
    ELSE Decimal(n \div 10) \o <<Digit[(n % 10) + 1]>>

\* the address string "%<space><type><index>[.<bit>]"; bit < 0: no suffix
Format(space, type, index, bit) ==
    <<"%", space, type>> \o Decimal(index)
        \o (IF bit >= 0 THEN <<".">> \o Decimal(bit) ELSE <<>>)

\* length of the run of digits of s that starts at position i (greedy \d+)
RECURSIVE DigitRun(_, _)
DigitRun(s, i) ==
    IF i > Len(s) \/ ~IsDigit(s[i]) THEN 0 ELSE 1 + DigitRun(s, i + 1)

\* std::regex_match of %([IQM])([XBWDL])(\d+)(?:\.(\d+))? , icase:
\* the four capture groups, or matched = FALSE
RegexMatch(address) ==
    LET n == Len(address)
        no == [matched |-> FALSE, space |-> "", type |-> "",
               index |-> <<>>, bit |-> <<>>]
    IN  IF n < 4 THEN no
        ELSE IF address[1] # "%" THEN no
        ELSE IF toLowerCase(address[2]) \notin {"i", "q", "m"} THEN no
        ELSE IF toLowerCase(address[3]) \notin {"x", "b", "w", "d", "l"} THEN no
        ELSE LET k == DigitRun(address, 4)
             IN  IF k = 0 THEN no
                 ELSE IF 3 + k = n
                 THEN [matched |-> TRUE, space |-> address[2],
                       type |-> address[3],
                       index |-> SubSeq(address, 4, 3 + k), bit |-> <<>>]
                 ELSE IF address[4 + k] = "."
                         /\ n > 4 + k
                         /\ DigitRun(address, 5 + k) = n - (4 + k)
                 THEN [matched |-> TRUE, space |-> address[2],
                       type |-> address[3],
                       index |-> SubSeq(address, 4, 3 + k),
                       bit |-> SubSeq(address, 5 + k, n)]
                 ELSE no

----------------------------------------------------------------------------
(* The address parser *)

\* the memory-space branch shared by both versions of parseAddress
SpaceOf(space) ==
    IF toLowerCase(space) = "m" THEN SpaceM
    ELSE IF toLowerCase(space) = "q" THEN SpaceQ
    ELSE IF toLowerCase(space) = "i" THEN SpaceI
    ELSE -1

\* the width branch of nodalis.h's parseAddress
WidthOf(type) ==
    IF toLowerCase(type) = "x" THEN 8
    ELSE IF toLowerCase(type) = "w" THEN 16
    ELSE IF toLowerCase(type) = "d" THEN 32
    ELSE IF toLowerCase(type) = "l" THEN 32
    ELSE -1

\* the width branch of imperium.h's parseAddress
WidthOf_imperium(type) ==
    IF toLowerCase(type) = "x" THEN 8
    ELSE IF toLowerCase(type) = "w" THEN 16
    ELSE IF toLowerCase(type) = "d" THEN 32
    ELSE -1

\* what parseAddress returns when the string does not match: it throws
ParseThrow == [thrown |-> TRUE, space |-> -1, width |-> -1, index |-> -1,
               bit |-> -1]

\* nodalis.h parseAddress: {ispace, width, addr, ibit}, or std::invalid_argument
parseAddress(address) ==
    LET match == RegexMatch(address)
    IN  IF match.matched
        THEN [thrown |-> FALSE,
              space  |-> SpaceOf(match.space),
              width  |-> WidthOf(match.type),
              index  |-> stoi(match.index),
              bit    |-> IF match.bit # <<>> THEN stoi(match.bit) ELSE -1]
        ELSE ParseThrow

\* imperium.h parseAddress
parseAddress_imperium(address) ==
    LET match == RegexMatch(address)
    IN  IF match.matched
        THEN [thrown |-> FALSE,
              space  |-> SpaceOf(match.space),
              width  |-> WidthOf_imperium(match.type),
              index  |-> stoi(match.index),
              bit    |-> IF match.bit # <<>> THEN stoi(match.bit) ELSE -1]
        ELSE ParseThrow

----------------------------------------------------------------------------
(* Pointers into MEMORY: byte offsets from &MEMORY[0][0] *)

\* &MEMORY[r][c] as a byte offset
CellPtr(r, c) == (r * Cols + c) * CellBytes

\* getMemoryByte: r, c, b per space; (uint8_t*)(&MEMORY[r][c]) + b
getMemoryByte(space, addr) ==
    IF space = SpaceQ THEN CellPtr((addr * 8) \div 64, 1) + (addr % 8)
    ELSE IF space = SpaceI THEN CellPtr((addr * 8) \div 64, 0) + (addr % 8)
    ELSE IF space = SpaceM
    THEN CellPtr((addr * 8) \div (64 * 14), (addr \div 112) + 2) + (addr % 8)
    ELSE NullPtr

getMemoryWord(space, addr) == getMemoryByte(space, addr * 2)

getMemoryDWord(space, addr) == getMemoryByte(space, addr * 4)

\* the n bytes at p lie inside MEMORY
InBounds(p, n) == p >= 0 /\ p + n <= MemBytes

----------------------------------------------------------------------------
(* MEMORY contents *)

\* MEMORY[64][16] = { 0 }
ZeroMemory == [a \in {} |-> 0]

\* the byte at offset a
ByteAt(m, a) == IF a \in DOMAIN m THEN m[a] ELSE 0

Pow256(i) == CASE i = 0 -> 1 [] i = 1 -> 256 [] i = 2 -> 65536
               [] i = 3 -> 16777216

\* byte i (in storage order) of the n-byte integer v on this host
ByteOfValue(v, i, n, be) ==
    IF be THEN (v \div Pow256(n - 1 - i)) % 256 ELSE (v \div Pow256(i)) % 256

RECURSIVE Load(_, _, _, _)
\* *(uintN_t*)p : the n-byte integer stored at p
Load(m, p, n, be) ==
    IF n = 0 THEN 0
    ELSE IF be THEN Load(m, p, n - 1, be) * 256 + ByteAt(m, p + n - 1)
    ELSE ByteAt(m, p) + 256 * Load(m, p + 1, n - 1, be)

\* *(uintN_t*)p = v
Store(m, p, n, v, be) ==
    LET touched == p .. (p + n - 1)
        val(a) == IF a \in touched THEN ByteOfValue(v, a - p, n, be)
                  ELSE ByteAt(m, a)
        dom == {a \in (DOMAIN m) \cup touched : val(a) # 0}
    IN  [a \in dom |-> val(a)]

\* bit k of byte value x
BitOf(x, k) == (x \div (2 ^ k)) % 2 = 1

\* x | mask, x & ~mask for mask = 1 << k
WithBit(x, k, value) ==
    IF value THEN (IF BitOf(x, k) THEN x ELSE x + 2 ^ k)
    ELSE (IF BitOf(x, k) THEN x - 2 ^ k ELSE x)

----------------------------------------------------------------------------
(* The accessors of imperium.cpp.  Each returns how the call ends:          *)
(*   outcome "ok"    - returned normally (ret: the value read),             *)
(*   outcome "throw" - std::invalid_argument (what: which check threw),     *)
(*   outcome "oob"   - it dereferenced a pointer outside MEMORY,            *)
(* and the contents of MEMORY after the call.                               *)

Throw(m, what) == [outcome |-> "throw", what |-> what, ret |-> 0, mem |-> m]

Returned(m, ret) == [outcome |-> "ok", what |-> "", ret |-> ret, mem |-> m]

OutOfBounds(m) == [outcome |-> "oob", what |-> "", ret |-> 0, mem |-> m]

\* return *(uintN_t*)p
ReadAt(m, be, p, n) ==
    IF InBounds(p, n) THEN Returned(m, Load(m, p, n, be)) ELSE OutOfBounds(m)

\* *(uintN_t*)p = value
WriteAt(m, be, p, n, value) ==
    IF InBounds(p, n) THEN Returned(Store(m, p, n, value, be), 0)
    ELSE OutOfBounds(m)

\* getBit(var, bit): byte var + bit/8, mask 1 << (bit % 8)
getBit(m, var, bit) ==
    LET bytePtr == var + (bit \div 8)
    IN  IF InBounds(bytePtr, 1)
        THEN Returned(m, IF BitOf(ByteAt(m, bytePtr), bit % 8) THEN 1 ELSE 0)
        ELSE OutOfBounds(m)

\* a mutation of setBit: the byte is overwritten with the mask
setBit_Overwrite(m, var, bit, value) ==
    LET bytePtr == var + (bit \div 8)
    IN  IF InBounds(bytePtr, 1)
        THEN Returned(Store(m, bytePtr, 1,
                            IF value THEN 2 ^ (bit % 8) ELSE 0, FALSE), 0)
        ELSE OutOfBounds(m)

\* setBit(var, bit, value): *bytePtr |= mask or *bytePtr &= ~mask
setBit(m, var, bit, value) ==
    LET bytePtr == var + (bit \div 8)
    IN  IF InBounds(bytePtr, 1)
        THEN Returned(Store(m, bytePtr, 1,
                            WithBit(ByteAt(m, bytePtr), bit % 8, value),
                            FALSE), 0)
        ELSE OutOfBounds(m)

readDWord(m, be, address) ==
    LET parts == parseAddress(address)
    IN  IF parts.thrown THEN Throw(m, "format")
        ELSE IF parts.width # 32 THEN Throw(m, "type")
        ELSE IF parts.space = -1 THEN Throw(m, "space")
        ELSE IF parts.index = -1 THEN Throw(m, "index")
        ELSE IF parts.bit > -1 THEN Throw(m, "bit")
        ELSE ReadAt(m, be, getMemoryDWord(parts.space, parts.index), 4)

readWord(m, be, address) ==
    LET parts == parseAddress(address)
    IN  IF parts.thrown THEN Throw(m, "format")
        ELSE IF parts.width # 16 THEN Throw(m, "type")
        ELSE IF parts.space = -1 THEN Throw(m, "space")
        ELSE IF parts.index = -1 THEN Throw(m, "index")
        ELSE IF parts.bit > -1 THEN Throw(m, "bit")
        ELSE ReadAt(m, be, getMemoryWord(parts.space, parts.index), 2)

readByte(m, be, address) ==
    LET parts == parseAddress(address)
    IN  IF parts.thrown THEN Throw(m, "format")
        ELSE IF parts.width # 8 THEN Throw(m, "type")
        ELSE IF parts.space = -1 THEN Throw(m, "space")
        ELSE IF parts.index = -1 THEN Throw(m, "index")
        ELSE IF parts.bit > -1 THEN Throw(m, "bit")
        ELSE ReadAt(m, be, getMemoryByte(parts.space, parts.index), 1)

readBit(m, be, address) ==
    LET parts == parseAddress(address)
    IN  IF parts.thrown THEN Throw(m, "format")
        ELSE IF parts.space = -1 THEN Throw(m, "space")
        ELSE IF parts.index = -1 THEN Throw(m, "index")
        ELSE IF parts.bit = -1 THEN Throw(m, "bit")
        ELSE IF parts.width = -1 THEN Throw(m, "size")
        ELSE IF parts.width = 8
        THEN getBit(m, getMemoryByte(parts.space, parts.index), parts.bit)
        ELSE IF parts.width = 16
        THEN getBit(m, getMemoryWord(parts.space, parts.index), parts.bit)
        ELSE IF parts.width = 32
        THEN getBit(m, getMemoryDWord(parts.space, parts.index), parts.bit)
        ELSE Returned(m, 0)

writeDWord(m, be, address, value) ==
    LET parts == parseAddress(address)
    IN  IF parts.thrown THEN Throw(m, "format")
        ELSE IF parts.width # 32 THEN Throw(m, "type")
        ELSE IF parts.space = -1 THEN Throw(m, "space")
        ELSE IF parts.index = -1 THEN Throw(m, "index")
        ELSE IF parts.bit > -1 THEN Throw(m, "bit")
        ELSE WriteAt(m, be, getMemoryDWord(parts.space, parts.index), 4, value)

writeWord(m, be, address, value) ==
    LET parts == parseAddress(address)
    IN  IF parts.thrown THEN Throw(m, "format")
        ELSE IF parts.width # 16 THEN Throw(m, "type")
        ELSE IF parts.space = -1 THEN Throw(m, "space")
        ELSE IF parts.index = -1 THEN Throw(m, "index")
        ELSE IF parts.bit > -1 THEN Throw(m, "bit")
        ELSE WriteAt(m, be, getMemoryWord(parts.space, parts.index), 2, value)

\* a mutation of writeByte: the bit-suffix check is missing
writeByte_NoBitCheck(m, be, address, value) ==
    LET parts == parseAddress(address)
    IN  IF parts.thrown THEN Throw(m, "format")
        ELSE IF parts.width # 8 THEN Throw(m, "type")
        ELSE WriteAt(m, be, getMemoryByte(parts.space, parts.index), 1, value)

writeByte(m, be, address, value) ==
    LET parts == parseAddress(address)
    IN  IF parts.thrown THEN Throw(m, "format")
        ELSE IF parts.width # 8 THEN Throw(m, "type")
        ELSE IF parts.space = -1 THEN Throw(m, "space")
        ELSE IF parts.index = -1 THEN Throw(m, "index")
        ELSE IF parts.bit > -1 THEN Throw(m, "bit")
        ELSE WriteAt(m, be, getMemoryByte(parts.space, parts.index), 1, value)

writeBit(m, be, address, value) ==
    LET parts == parseAddress(address)
    IN  IF parts.thrown THEN Throw(m, "format")
        ELSE IF parts.space = -1 THEN Throw(m, "space")
        ELSE IF parts.index = -1 THEN Throw(m, "index")
        ELSE IF parts.bit = -1 THEN Throw(m, "bit")
        ELSE IF parts.width = -1 THEN Throw(m, "size")
        ELSE IF parts.width = 8
        THEN setBit(m, getMemoryByte(parts.space, parts.index), parts.bit, value)
        ELSE IF parts.width = 16
        THEN setBit(m, getMemoryWord(parts.space, parts.index), parts.bit, value)
        ELSE IF parts.width = 32
        THEN setBit(m, getMemoryDWord(parts.space, parts.index), parts.bit, value)
        ELSE Returned(m, 0)

----------------------------------------------------------------------------
(* Quiescent values of the parts of the state a specification leaves alone *)

ImageIdle ==
    /\ mem = ZeroMemory
    /\ bigEndian = FALSE
    /\ last = [op |-> "none", addr |-> <<>>, value |-> 0, outcome |-> "ok",
               what |-> "", ret |-> 0]
    /\ nops = 0

\* the parser run before either version of parseAddress was called
NotParsed == [nodalisDone |-> FALSE, nodalis |-> ParseThrow,
              imperiumDone |-> FALSE, imperium |-> ParseThrow]

ParseIdle == pAddr = <<>> /\ pOut = NotParsed

RefIdle == refs = <<>> /\ shadow = <<>> /\ rlast = <<>> /\ rops = 0

TPIdle == tp = <<>> /\ now = 0 /\ tpg = <<>>

FBIdle == fb = <<>> /\ fbg = <<>>

IOIdle ==
    clients = <<>> /\ remote = <<>> /\ iog = <<>> /\ PROGRAM_COUNT = 0

BACIdle == bacnet = <<>> /\ exchange = <<>>

----------------------------------------------------------------------------
(* The image specification: a program calling the accessors *)

\* the address strings the calls are made with
Addresses ==
    { Format("I", "X", 0, 0),    Format("I", "X", 0, 7),
      Format("I", "X", 0, 9),    Format("I", "X", 7, 8),
      Format("I", "X", 0, -1),   Format("I", "X", 120, -1),
      Format("I", "X", 511, 7),  Format("I", "X", 512, -1),
      Format("I", "W", 0, -1),   Format("I", "B", 0, -1),
      Format("Q", "X", 0, 0),    Format("Q", "X", 0, -1),
      Format("Q", "W", 1, 16),   Format("Q", "X", 128, -1),
      Format("Q", "D", 0, -1),
      Format("M", "X", 0, -1),   Format("M", "X", 8, -1),
      Format("M", "X", 1568, -1), Format("M", "X", 1680, -1),
      Format("M", "D", 0, -1),   Format("M", "W", 0, -1),
      Format("M", "W", 1, -1),   Format("M", "D", 1708, -1),
      Format("M", "X", 7168, -1), Format("M", "L", 7, -1),
      Format("m", "d", 1, 3),    <<"%", "I", "X">> }

\* the values the writers are called with (0x5A, 0x1234, 0x12345678)
ByteValues == {0, 90}
WordValues == {0, 4660}
DWordValues == {0, 305419896}

\* what a read outside MEMORY may return
StrayValues == {0, 1}

\* the call op(addr, value) ends as res says; a dereference outside MEMORY is
\* undefined: the call returns with whatever lies there, or the program dies
Call(op, addr, value, res) ==
    /\ nops < MaxOps
    /\ last.outcome # "crash"
    /\ nops' = nops + 1
    /\ mem' = res.mem
    /\ IF res.outcome = "oob"
       THEN \E o \in {"stray", "crash"} :
            \E r \in (IF op \in {"readBit", "readByte", "readWord", "readDWord"}
                         /\ o = "stray"
                      THEN StrayValues ELSE {0}) :
                last' = [op |-> op, addr |-> addr, value |-> value,
                         outcome |-> o, what |-> "", ret |-> r]
       ELSE last' = [op |-> op, addr |-> addr, value |-> value,
                     outcome |-> res.outcome, what |-> res.what,
                     ret |-> res.ret]
    /\ UNCHANGED <<bacVars, bigEndian, parseVars, refVars, tpVars, fbVars,
                 ioVars>>

ReadBit ==
    \E a \in Addresses : Call("readBit", a, 0, readBit(mem, bigEndian, a))

ReadByte ==
    \E a \in Addresses : Call("readByte", a, 0, readByte(mem, bigEndian, a))

ReadWord ==
    \E a \in Addresses : Call("readWord", a, 0, readWord(mem, bigEndian, a))

ReadDWord ==
    \E a \in Addresses : Call("readDWord", a, 0, readDWord(mem, bigEndian, a))

WriteBit ==
    \E a \in Addresses, v \in BOOLEAN :
        Call("writeBit", a, IF v THEN 1 ELSE 0, writeBit(mem, bigEndian, a, v))

WriteByte ==
    \E a \in Addresses, v \in ByteValues :
        Call("writeByte", a, v, writeByte(mem, bigEndian, a, v))

WriteWord ==
    \E a \in Addresses, v \in WordValues :
        Call("writeWord", a, v, writeWord(mem, bigEndian, a, v))

WriteDWord ==
    \E a \in Addresses, v \in DWordValues :
        Call("writeDWord", a, v, writeDWord(mem, bigEndian, a, v))

ImageInit ==
    /\ mem = ZeroMemory
    /\ bigEndian \in BOOLEAN
    /\ last = [op |-> "none", addr |-> <<>>, value |-> 0, outcome |-> "ok",
               what |-> "", ret |-> 0]
    /\ nops = 0
    /\ ParseIdle /\ RefIdle /\ TPIdle /\ FBIdle /\ IOIdle
    /\ BACIdle

ImageNext ==
    \/ ReadBit \/ ReadByte \/ ReadWord \/ ReadDWord
    \/ WriteBit \/ WriteByte \/ WriteWord \/ WriteDWord

SpecImage == ImageInit /\ [][ImageNext]_vars

\* the M addresses of a program that keeps its flags in the M space: bits of
\* the bytes 0, 1, 8, 112 and of the last byte of the space, and those bytes
MAddresses ==
    { Format("M", "X", 0, 0),   Format("M", "X", 0, -1),
      Format("M", "X", 1, 7),   Format("M", "X", 1, -1),
      Format("M", "X", 8, 0),   Format("M", "X", 8, -1),
      Format("M", "X", 112, 3), Format("M", "X", 112, -1),
      Format("M", "X", 7167, 0) }

\* the program sets or clears a flag with writeBit
MemWriteBit ==
    \E a \in MAddresses, v \in BOOLEAN :
        Call("writeBit", a, IF v THEN 1 ELSE 0, writeBit(mem, bigEndian, a, v))

\* the program reads a byte of flags with readByte
MemReadByte ==
    \E a \in MAddresses : Call("readByte", a, 0, readByte(mem, bigEndian, a))

MemNext == MemWriteBit \/ MemReadByte

SpecMem == ImageInit /\ [][MemNext]_vars

----------------------------------------------------------------------------
(* Vocabulary of the claims about the process image *)

\* byte length of a memory space: I and Q 64 x 8, M 64 x 14 x 8
SpaceBytes(space) == IF space = SpaceM THEN Rows * 14 * CellBytes
                     ELSE Rows * CellBytes

\* index x width/8
ByteOffset(parts) == parts.index * (parts.width \div 8)

\* the address names a cell that lies inside its space
InRange(address) ==
    LET parts == parseAddress(address)
    IN  /\ ~parts.thrown
        /\ parts.width > 0
        /\ ByteOffset(parts) + (parts.width \div 8) <= SpaceBytes(parts.space)

\* the byte offset of the address lies outside its space
OutOfRange(address) ==
    LET parts == parseAddress(address)
    IN  /\ ~parts.thrown
        /\ parts.width > 0
        /\ ByteOffset(parts) >= SpaceBytes(parts.space)

\* the address has no bit suffix, or one below its width
BitInWidth(address) == parseAddress(address).bit < parseAddress(address).width

Readers == {"readBit", "readByte", "readWord", "readDWord"}
Writers == {"writeBit", "writeByte", "writeWord", "writeDWord"}

\* the width a typed accessor is for
AccessorWidth(op) ==
    CASE op \in {"readByte", "writeByte"} -> 8
      [] op \in {"readWord", "writeWord"} -> 16
      [] op \in {"readDWord", "writeDWord"} -> 32
      [] OTHER -> 0

\* the reader that matches the form of the address, applied to MEMORY m
ReadBack(m, address) ==
    LET parts == parseAddress(address)
    IN  IF parts.bit >= 0 THEN readBit(m, bigEndian, address)
        ELSE IF parts.width = 8 THEN readByte(m, bigEndian, address)
        ELSE IF parts.width = 16 THEN readWord(m, bigEndian, address)
        ELSE readDWord(m, bigEndian, address)

\* a step in which an accessor was called
Called == nops' = nops + 1

\* where the layout of the data model puts byte n of the input space:
\* row n / 8, column 0, byte n % 8 of the cell
InputByte(n) == ((n \div 8) * Cols + 0) * CellBytes + (n % 8)

----------------------------------------------------------------------------
(* Claims about the process image, checked under SpecImage *)

\* C1: a write through any accessor to an in-range address (bit < width) of
\* one space never changes the value read back at any in-range address of a
\* different space.
C1_SpacesNeverAlias ==
    [][ ( /\ Called
          /\ last'.op \in Writers
          /\ InRange(last'.addr)
          /\ BitInWidth(last'.addr) )
        => \A b \in Addresses :
             ( /\ InRange(b)
               /\ BitInWidth(b)
               /\ parseAddress(b).space # parseAddress(last'.addr).space )
             => /\ ReadBack(mem', b).outcome = ReadBack(mem, b).outcome
                /\ ReadBack(mem', b).ret = ReadBack(mem, b).ret ]_vars

\* C2: after the width-w writer wrote v at an in-range index, the call has
\* returned normally and the width-w reader of the same address returns v,
\* whatever was written before.
C2_WriteReadRoundTrip ==
    ( /\ last.op \in {"writeByte", "writeWord", "writeDWord"}
      /\ InRange(last.addr)
      /\ parseAddress(last.addr).width = AccessorWidth(last.op)
      /\ parseAddress(last.addr).bit = -1 )
    => /\ last.outcome = "ok"
       /\ ReadBack(mem, last.addr).outcome = "ok"
       /\ ReadBack(mem, last.addr).ret = last.value

\* C3: writeBit("%IX n.b", v) with n < 512 and b < 8 returns normally,
\* readBit of the same address then returns v, the bit written is bit b of
\* the byte the layout assigns to byte n of space I, and every other bit of
\* MEMORY keeps its value.
C3_WriteBitFrame ==
    [][ ( /\ Called
          /\ last'.op = "writeBit"
          /\ InRange(last'.addr)
          /\ parseAddress(last'.addr).space = SpaceI
          /\ parseAddress(last'.addr).width = 8
          /\ parseAddress(last'.addr).bit \in 0..7 )
        => LET n == parseAddress(last'.addr).index
               b == parseAddress(last'.addr).bit
               target == InputByte(n)
           IN  /\ last'.outcome = "ok"
               /\ readBit(mem', bigEndian, last'.addr).outcome = "ok"
               /\ readBit(mem', bigEndian, last'.addr).ret = last'.value
               /\ BitOf(ByteAt(mem', target), b) = (last'.value = 1)
               /\ \A k \in (0..7) \ {b} :
                    BitOf(ByteAt(mem', target), k) = BitOf(ByteAt(mem, target), k)
               /\ \A a \in ((DOMAIN mem) \cup (DOMAIN mem')) \ {target} :
                    ByteAt(mem', a) = ByteAt(mem, a) ]_vars

\* C3 witness: a bit of space I was set by writeBit while MEMORY held other
\* non-zero bytes
C3_Witness ==
    /\ last.op = "writeBit"
    /\ last.value = 1
    /\ last.outcome = "ok"
    /\ InRange(last.addr)
    /\ parseAddress(last.addr).space = SpaceI
    /\ parseAddress(last.addr).bit \in 0..7
    /\ BitOf(ByteAt(mem, InputByte(parseAddress(last.addr).index)),
             parseAddress(last.addr).bit)
    /\ Cardinality(DOMAIN mem) >= 2

\* C4: an accessor called with an address whose byte offset lies outside its
\* space fails with an error.
C4_OutOfRangeFails ==
    (last.op # "none" /\ OutOfRange(last.addr)) => last.outcome = "throw"

\* C5: readBit and writeBit fail on an address whose bit subfield is not
\* below the address width.
C5_BitBeyondWidthFails ==
    ( /\ last.op \in {"readBit", "writeBit"}
      /\ ~parseAddress(last.addr).thrown
      /\ parseAddress(last.addr).width > 0
      /\ parseAddress(last.addr).bit >= parseAddress(last.addr).width )
    => last.outcome = "throw"

\* C7: a typed accessor called with an address of another width or with a
\* bit suffix, and a bit accessor called without a bit suffix, throw and
\* leave MEMORY as it was.
C7_MismatchThrows ==
    [][ ( /\ Called
          /\ ~parseAddress(last'.addr).thrown
          /\ \/ /\ AccessorWidth(last'.op) # 0
                /\ \/ parseAddress(last'.addr).width # AccessorWidth(last'.op)
                   \/ parseAddress(last'.addr).bit >= 0
             \/ /\ last'.op \in {"readBit", "writeBit"}
                /\ parseAddress(last'.addr).bit = -1 )
        => (last'.outcome = "throw" /\ mem' = mem) ]_vars

\* C7 witness: writeByte was called with a byte address carrying a bit
\* suffix while MEMORY held data, and threw
C7_Witness ==
    /\ last.op = "writeByte"
    /\ parseAddress(last.addr).width = 8
    /\ parseAddress(last.addr).bit >= 0
    /\ last.value # 0
    /\ last.outcome = "throw"
    /\ mem # ZeroMemory

\* C8: after writeDWord("%MD k", v) with k in range, the call has returned
\* normally and readWord of %MW 2k and %MW 2k+1 return the two 16-bit halves
\* of v in host byte order.
C8_DWordHalves ==
    ( /\ last.op = "writeDWord"
      /\ InRange(last.addr)
      /\ parseAddress(last.addr).space = SpaceM
      /\ parseAddress(last.addr).width = 32
      /\ parseAddress(last.addr).bit = -1 )
    => LET k == parseAddress(last.addr).index
           first == readWord(mem, bigEndian, Format("M", "W", 2 * k, -1))
           second == readWord(mem, bigEndian, Format("M", "W", 2 * k + 1, -1))
           low == last.value % 65536
           high == last.value \div 65536
       IN  /\ last.outcome = "ok"
           /\ first.outcome = "ok"
           /\ second.outcome = "ok"
           /\ first.ret = (IF bigEndian THEN high ELSE low)
           /\ second.ret = (IF bigEndian THEN low ELSE high)

----------------------------------------------------------------------------
(* The parser specification: parseAddress applied to address strings *)

\* the strings handed to parseAddress: every space and type letter in both
\* cases, with and without a bit suffix, and strings of other shapes
ParseInputs ==
    { Format(sp, ty, i, b) :
        sp \in {"I", "Q", "M", "i", "q", "m"},
        ty \in {"X", "B", "W", "D", "L", "x", "b", "w", "d", "l"},
        i \in {0, 7, 42},
        b \in {-1, 0, 3, 16} }
    \cup { <<"%", "I", "X">>, <<"%", "Z", "X", "0">>, <<"%", "I", "Y", "0">>,
           <<"I", "X", "0">>, <<"%", "I", "X", "0", ".">>,
           <<"%", "I", "X", "0", ".", "1", " ">>, <<>> }

ParseInit ==
    /\ pAddr \in ParseInputs
    /\ pOut = NotParsed
    /\ ImageIdle /\ RefIdle /\ TPIdle /\ FBIdle /\ IOIdle
    /\ BACIdle

\* parseAddress of nodalis.h is called with pAddr
ParseNodalis ==
    /\ ~pOut.nodalisDone
    /\ pOut' = [pOut EXCEPT !.nodalisDone = TRUE,
                            !.nodalis = parseAddress(pAddr)]
    /\ UNCHANGED <<bacVars, pAddr, imageVars, refVars, tpVars, fbVars, ioVars>>

\* parseAddress of imperium.h is called with pAddr
ParseImperium ==
    /\ ~pOut.imperiumDone
    /\ pOut' = [pOut EXCEPT !.imperiumDone = TRUE,
                            !.imperium = parseAddress_imperium(pAddr)]
    /\ UNCHANGED <<bacVars, pAddr, imageVars, refVars, tpVars, fbVars, ioVars>>

ParseNext == ParseNodalis \/ ParseImperium

SpecParse == ParseInit /\ [][ParseNext]_vars

\* the width the data model gives a type letter
DocumentedWidth(letter) ==
    CASE toLowerCase(letter) = "x" -> 8
      [] toLowerCase(letter) = "b" -> 8
      [] toLowerCase(letter) = "w" -> 16
      [] toLowerCase(letter) = "d" -> 32
      [] toLowerCase(letter) = "l" -> 64

\* the string carries a .bit suffix
HasBitSuffix(address) == \E i \in 1..Len(address) : address[i] = "."

\* C6: for every well-formed address parseAddress returns the width
\* X->8, B->8, W->16, D->32, L->64 of its type letter, in either case, and
\* bit = -1 exactly when the string has no .bit suffix.
C6_WidthLetters ==
    (pOut.nodalisDone /\ RegexMatch(pAddr).matched)
    => /\ ~pOut.nodalis.thrown
       /\ pOut.nodalis.width = DocumentedWidth(pAddr[3])
       /\ (pOut.nodalis.bit = -1) <=> ~HasBitSuffix(pAddr)

----------------------------------------------------------------------------
(* RefVar<T>: a variable bound to an address (nodalis.h) *)

\* RefVar<T>::read(): the accessor for T applied to the bound address
RefVar_read(m, be, ref) ==
    CASE ref.type = "bool" -> readBit(m, be, ref.address)
      [] ref.type = "uint8_t" -> readByte(m, be, ref.address)
      [] ref.type = "uint16_t" -> readWord(m, be, ref.address)
      [] ref.type = "uint32_t" -> readDWord(m, be, ref.address)

\* RefVar<T>::write(value)
RefVar_write(m, be, ref, value) ==
    CASE ref.type = "bool" -> writeBit(m, be, ref.address, value = 1)
      [] ref.type = "uint8_t" -> writeByte(m, be, ref.address, value)
      [] ref.type = "uint16_t" -> writeWord(m, be, ref.address, value)
      [] ref.type = "uint32_t" -> writeDWord(m, be, ref.address, value)

\* a mutation of RefVar_get: the conversion returns the cache
RefVar_get_Cached(m, be, ref) == Returned(m, ref.cache)

\* RefVar<T>::operator T(): return read()
RefVar_get(m, be, ref) == RefVar_read(m, be, ref)

\* RefVar<T>::operator=(value): cache = value; write(value)
RefVar_assign(m, be, ref, value) ==
    [ref |-> [ref EXCEPT !.cache = value],
     res |-> RefVar_write(m, be, ref, value)]

\* the two RefVar objects of the run
RefIds == {1, 2}

\* the element type and address the RefVars of a run are bound to; every
\* address is one whose storage lies inside MEMORY
RefBindings ==
    { [type |-> "bool", address |-> Format("I", "X", 0, 0)],
      [type |-> "bool", address |-> Format("Q", "X", 3, 7)],
      [type |-> "bool", address |-> Format("M", "W", 5, 9)],
      [type |-> "uint8_t", address |-> Format("Q", "X", 0, -1)],
      [type |-> "uint8_t", address |-> Format("M", "X", 1568, -1)],
      [type |-> "uint16_t", address |-> Format("M", "W", 1, -1)],
      [type |-> "uint16_t", address |-> Format("I", "W", 255, -1)],
      [type |-> "uint32_t", address |-> Format("M", "D", 0, -1)],
      [type |-> "uint32_t", address |-> Format("Q", "D", 127, -1)] }

\* the values of type T the run assigns
RefValues(type) ==
    CASE type = "bool" -> {0, 1}
      [] type = "uint8_t" -> {0, 7, 90}
      [] type = "uint16_t" -> {0, 7, 4660}
      [] type = "uint32_t" -> {0, 7, 305419896}

\* static initialisation: MEMORY is zero, then each RefVar's constructor
\* runs cache = read()
RefInit ==
    /\ mem = ZeroMemory
    /\ bigEndian \in BOOLEAN
    /\ \E bnd \in RefBindings :
         refs = [r \in RefIds |->
                   [type |-> bnd.type, address |-> bnd.address,
                    cache |-> RefVar_read(ZeroMemory, bigEndian,
                                 [type |-> bnd.type,
                                  address |-> bnd.address]).ret]]
    /\ shadow = [written |-> FALSE, value |-> 0]
    /\ rlast = [op |-> "none", ref |-> 0, ret |-> 0, outcome |-> "ok"]
    /\ rops = 0
    /\ last = [op |-> "none", addr |-> <<>>, value |-> 0, outcome |-> "ok",
               what |-> "", ret |-> 0]
    /\ nops = 0
    /\ ParseIdle /\ TPIdle /\ FBIdle /\ IOIdle
    /\ BACIdle

\* var = value, through RefVar r
RefAssign ==
    \E r \in RefIds : \E value \in RefValues(refs[r].type) :
        LET done == RefVar_assign(mem, bigEndian, refs[r], value)
        IN  /\ rops < MaxRefOps
            /\ rops' = rops + 1
            /\ refs' = [refs EXCEPT ![r] = done.ref]
            /\ mem' = done.res.mem
            /\ shadow' = [written |-> TRUE, value |-> value]
            /\ rlast' = [op |-> "assign", ref |-> r, ret |-> 0,
                         outcome |-> done.res.outcome]
            /\ UNCHANGED <<bacVars, bigEndian, last, nops, parseVars, tpVars,
                           fbVars, ioVars>>

\* T x = var, through RefVar r
RefRead ==
    \E r \in RefIds :
        LET got == RefVar_get(mem, bigEndian, refs[r])
        IN  /\ rops < MaxRefOps
            /\ rops' = rops + 1
            /\ rlast' = [op |-> "read", ref |-> r, ret |-> got.ret,
                         outcome |-> got.outcome]
            /\ UNCHANGED <<bacVars, mem, refs, shadow, bigEndian, last, nops,
                           parseVars, tpVars, fbVars, ioVars>>

\* a direct accessor write (writeBit, writeByte, ...) to the bound address
RefDirectWrite ==
    \E value \in RefValues(refs[1].type) :
        LET res == RefVar_write(mem, bigEndian,
                                [type |-> refs[1].type,
                                 address |-> refs[1].address], value)
        IN  /\ rops < MaxRefOps
            /\ rops' = rops + 1
            /\ mem' = res.mem
            /\ shadow' = [written |-> TRUE, value |-> value]
            /\ rlast' = [op |-> "direct", ref |-> 0, ret |-> 0,
                         outcome |-> res.outcome]
            /\ UNCHANGED <<bacVars, refs, bigEndian, last, nops, parseVars, tpVars,
                           fbVars, ioVars>>

RefNext == RefAssign \/ RefRead \/ RefDirectWrite

SpecRefVar == RefInit /\ [][RefNext]_vars

\* C9: reading a RefVar yields the value most recently written to the image
\* at its address, by this RefVar, by another RefVar on the address or by a
\* direct accessor write, whatever its cache holds.
C9_RefVarReadsImage ==
    (rlast.op = "read" /\ shadow.written)
    => (rlast.outcome = "ok" /\ rlast.ret = shadow.value)

\* C9 witness: a RefVar was read after the address was written behind its
\* back, so that its cache differs from the value written last
C9_Witness ==
    /\ rlast.op = "read"
    /\ shadow.written
    /\ refs[rlast.ref].cache # shadow.value
    /\ rlast.ret = shadow.value
    /\ rlast.ret # 0

----------------------------------------------------------------------------
(* TP, the pulse timer of nodalis.h, driven as generated programs drive it: *)
(* a block with static storage is evaluated, then its inputs are assigned.  *)

\* TP::operator()(), the field IN written IN_; first and second are what
\* the first and the second call of elapsed() in the evaluation return
TP_call(b, first, second) ==
    LET rising == ~b.lastIN /\ b.IN_
        b1 == IF rising
              THEN [b EXCEPT !.Q = FALSE, !.lastIN = b.IN_, !.ET = 0,
                             !.startTime = 0]
              ELSE [b EXCEPT !.Q = FALSE]
    IN  IF b1.IN_ THEN [b1 EXCEPT !.Q = TRUE]
        ELSE IF b1.lastIN /\ ~b1.IN_
        THEN LET start == IF b1.startTime = 0 THEN first ELSE b1.startTime
                 et == (IF b1.startTime = 0 THEN second ELSE first) - start
             IN  IF b1.PT >= et
                 THEN [b1 EXCEPT !.startTime = start, !.ET = et, !.Q = TRUE]
                 ELSE [b1 EXCEPT !.startTime = start, !.ET = et,
                                 !.lastIN = FALSE]
        ELSE b1

\* the presets PT the programs of the runs assign
Presets == {2, 3}

\* static TP block: zero-initialised fields, lastIN = false, startTime = 0
TPInit ==
    /\ tp = [Q |-> FALSE, IN_ |-> FALSE, PT |-> 0, ET |-> 0,
             lastIN |-> FALSE, startTime |-> 0]
    /\ now = 0
    /\ \E preset \in Presets :
         tpg = [preset |-> preset, \* the constant the program assigns to PT
                evaluated |-> FALSE, \* the last step was an evaluation
                evals |-> 0,         \* evaluations so far, capped at 2
                at |-> 0,            \* clock at the last evaluation
                sampledIN |-> FALSE, \* IN as the last evaluation saw it
                t0 |-> -1,           \* clock at the last rising edge seen
                p0 |-> -1,           \* clock at the rising edge that began
                                     \* the pulse now running or last run
                prevET |-> 0,        \* ET before the last evaluation
                prevQ |-> FALSE]     \* Q before the last evaluation
    /\ ImageIdle /\ ParseIdle /\ RefIdle /\ FBIdle /\ IOIdle
    /\ BACIdle

\* the block is evaluated: PLS1()
TPEval ==
    \E d \in {0, 1} :
        /\ now + d <= MaxTime
        /\ tp' = TP_call(tp, now, now + d)
        /\ now' = now + d
        /\ tpg' = [tpg EXCEPT
                     !.evaluated = TRUE,
                     !.evals = IF tpg.evals < 2 THEN tpg.evals + 1 ELSE 2,
                     !.at = now,
                     !.sampledIN = tp.IN_,
                     !.t0 = IF tp.IN_ /\ ~tpg.sampledIN THEN now ELSE tpg.t0,
                     !.p0 = IF /\ tp.IN_ /\ ~tpg.sampledIN
                               /\ (tpg.p0 < 0 \/ now - tpg.p0 >= tpg.preset)
                            THEN now ELSE tpg.p0,
                     !.prevET = tp.ET,
                     !.prevQ = tp.Q]
        /\ UNCHANGED <<bacVars, imageVars, parseVars, refVars, fbVars, ioVars>>

\* the program assigns the inputs: PLS1.IN = SW1; PLS1.PT = 1000
TPAssign ==
    \E level \in BOOLEAN :
        /\ tp' = [tp EXCEPT !.IN_ = level, !.PT = tpg.preset]
        /\ tpg' = [tpg EXCEPT !.evaluated = FALSE]
        /\ UNCHANGED <<bacVars, now, imageVars, parseVars, refVars, fbVars, ioVars>>

\* time passes between scans
TPTick ==
    \E d \in {1, 2} :
        /\ now + d <= MaxTime
        /\ now' = now + d
        /\ tpg' = [tpg EXCEPT !.evaluated = FALSE]
        /\ UNCHANGED <<bacVars, tp, imageVars, parseVars, refVars, fbVars, ioVars>>

TPNext == TPEval \/ TPAssign \/ TPTick

SpecTP == TPInit /\ [][TPNext]_vars

\* C10: after every evaluation that follows a rising edge of IN sampled at
\* t0, Q is true when now - t0 < PT and false when now - t0 >= PT, whatever
\* IN did since.
C10_PulseWidth ==
    (tpg.evaluated /\ tpg.t0 >= 0 /\ tp.PT = tpg.preset)
    => (tp.Q <=> (tpg.at - tpg.t0 < tp.PT))

\* the smaller of two numbers
Min(a, b) == IF a <= b THEN a ELSE b

\* C11: within a pulse begun by a rising edge of IN at t0, after every
\* evaluation ET = min(now - t0, PT); so ET never decreases within the pulse
\* and never exceeds PT.
C11_PulseElapsed ==
    (tpg.evaluated /\ tpg.p0 >= 0 /\ tp.PT = tpg.preset
       /\ tpg.at - tpg.p0 <= tp.PT)
    => /\ tp.ET = Min(tpg.at - tpg.p0, tp.PT)
       /\ tp.ET <= tp.PT
       /\ (tpg.evals = 2 /\ tpg.at > tpg.p0 => tp.ET >= tpg.prevET)

----------------------------------------------------------------------------
(* The other standard function blocks of nodalis.h.  A run holds one block   *)
(* with static storage, evaluated and assigned as generated programs do.     *)

\* width of the counters' CV and PV: uint16_t
CounterBits == 16

\* number of values of a counter
CounterRange == 2 ^ CounterBits

\* TON::operator()(); first and second are what the first and the second
\* call of elapsed() in the evaluation return
TON_call(b, first, second) ==
    IF b.IN_
    THEN LET start == IF b.startTime = 0 THEN first ELSE b.startTime
             et == (IF b.startTime = 0 THEN second ELSE first) - start
         IN  [b EXCEPT !.startTime = start, !.ET = et, !.Q = (et >= b.PT)]
    ELSE [b EXCEPT !.startTime = 0, !.ET = 0, !.Q = FALSE]

\* TOF::operator()()
TOF_call(b, first, second) ==
    IF b.IN_
    THEN [b EXCEPT !.Q = TRUE, !.startTime = 0, !.ET = 0]
    ELSE IF b.Q
    THEN LET start == IF b.startTime = 0 THEN first ELSE b.startTime
             et == (IF b.startTime = 0 THEN second ELSE first) - start
         IN  [b EXCEPT !.startTime = start, !.ET = et,
                       !.Q = IF et >= b.PT THEN FALSE ELSE b.Q]
    ELSE b

\* the number of elapsed() calls an evaluation of a timer makes
ElapsedCalls(b) ==
    IF b.kind = "TON" /\ b.IN_ THEN (IF b.startTime = 0 THEN 2 ELSE 1)
    ELSE IF b.kind = "TOF" /\ ~b.IN_ /\ b.Q
    THEN (IF b.startTime = 0 THEN 2 ELSE 1)
    ELSE 0

\* SR::operator()() with its two statements in the other order
SR_call_ResetLast(b) ==
    LET b1 == IF b.S1 THEN [b EXCEPT !.Q1 = TRUE] ELSE b
    IN  IF b1.R THEN [b1 EXCEPT !.Q1 = FALSE] ELSE b1

\* SR::operator()()
SR_call(b) ==
    LET b1 == IF b.R THEN [b EXCEPT !.Q1 = FALSE] ELSE b
    IN  IF b1.S1 THEN [b1 EXCEPT !.Q1 = TRUE] ELSE b1

\* RS::operator()()
RS_call(b) ==
    LET b1 == IF b.S THEN [b EXCEPT !.Q1 = TRUE] ELSE b
    IN  IF b1.R1 THEN [b1 EXCEPT !.Q1 = FALSE] ELSE b1

\* R_TRIG::operator()() without the assignment lastCLK = CLK
R_TRIG_call_NoLatch(b) ==
    [b EXCEPT !.OUT = (b.CLK /\ ~b.lastCLK)]

\* R_TRIG::operator()()
R_TRIG_call(b) ==
    [b EXCEPT !.OUT = (b.CLK /\ ~b.lastCLK), !.lastCLK = b.CLK]

\* F_TRIG::operator()()
F_TRIG_call(b) ==
    [b EXCEPT !.OUT = (~b.CLK /\ b.lastCLK), !.lastCLK = b.CLK]

\* CTU::operator()() counting the level of CU instead of its rising edge
CTU_call_Level(b) ==
    LET cv == IF b.R THEN 0
              ELSE IF b.CU THEN (b.CV + 1) % CounterRange
              ELSE b.CV
    IN  [b EXCEPT !.CV = cv, !.Q = (cv >= b.PV), !.lastCU = b.CU]

\* CTU::operator()()
CTU_call(b) ==
    LET cv == IF b.R THEN 0
              ELSE IF b.CU /\ ~b.lastCU THEN (b.CV + 1) % CounterRange
              ELSE b.CV
    IN  [b EXCEPT !.CV = cv, !.Q = (cv >= b.PV), !.lastCU = b.CU]

\* CTD::operator()() without the test CV > 0
CTD_call_Wrap(b) ==
    LET cv == IF b.LD THEN b.PV
              ELSE IF b.CD /\ ~b.lastCD THEN (b.CV - 1) % CounterRange
              ELSE b.CV
    IN  [b EXCEPT !.CV = cv, !.Q = (cv = 0), !.lastCD = b.CD]

\* CTD::operator()()
CTD_call(b) ==
    LET cv == IF b.LD THEN b.PV
              ELSE IF b.CD /\ ~b.lastCD /\ b.CV > 0 THEN b.CV - 1
              ELSE b.CV
    IN  [b EXCEPT !.CV = cv, !.Q = (cv = 0), !.lastCD = b.CD]

\* CTUD::operator()() testing LD before R
CTUD_call_LoadFirst(b) ==
    LET up == IF b.CU /\ ~b.lastCU THEN (b.CV + 1) % CounterRange ELSE b.CV
        cv == IF b.LD THEN b.PV
              ELSE IF b.R THEN 0
              ELSE IF b.CD /\ ~b.lastCD /\ up > 0 THEN up - 1
              ELSE up
    IN  [b EXCEPT !.CV = cv, !.QU = (cv >= b.PV), !.QD = (cv = 0),
                  !.lastCU = b.CU, !.lastCD = b.CD]

\* CTUD::operator()()
CTUD_call(b) ==
    LET up == IF b.CU /\ ~b.lastCU THEN (b.CV + 1) % CounterRange ELSE b.CV
        cv == IF b.R THEN 0
              ELSE IF b.LD THEN b.PV
              ELSE IF b.CD /\ ~b.lastCD /\ up > 0 THEN up - 1
              ELSE up
    IN  [b EXCEPT !.CV = cv, !.QU = (cv >= b.PV), !.QD = (cv = 0),
                  !.lastCU = b.CU, !.lastCD = b.CD]

\* the blocks as constructed: the member initialisers, and zero for the
\* members of a block with static storage that have none
FreshBlocks ==
    { [kind |-> "TON", IN_ |-> FALSE, PT |-> 0, Q |-> FALSE, ET |-> 0,
       startTime |-> 0],
      [kind |-> "TOF", IN_ |-> FALSE, PT |-> 0, Q |-> FALSE, ET |-> 0,
       startTime |-> 0],
      [kind |-> "SR", S1 |-> FALSE, R |-> FALSE, Q1 |-> FALSE],
      [kind |-> "RS", S |-> FALSE, R1 |-> FALSE, Q1 |-> FALSE],
      [kind |-> "R_TRIG", CLK |-> FALSE, OUT |-> FALSE, lastCLK |-> FALSE],
      [kind |-> "F_TRIG", CLK |-> FALSE, OUT |-> FALSE, lastCLK |-> FALSE],
      [kind |-> "CTU", CU |-> FALSE, R |-> FALSE, PV |-> 0, CV |-> 0,
       Q |-> FALSE, lastCU |-> FALSE],
      [kind |-> "CTD", CD |-> FALSE, LD |-> FALSE, PV |-> 0, CV |-> 0,
       Q |-> FALSE, lastCD |-> FALSE],
      [kind |-> "CTUD", CU |-> FALSE, CD |-> FALSE, R |-> FALSE,
       LD |-> FALSE, PV |-> 0, CV |-> 0, QU |-> FALSE, QD |-> FALSE,
       lastCU |-> FALSE, lastCD |-> FALSE] }

\* an up counter after CounterRange - 2 rising edges counted from CV = 0
\* with R false and PV = 0 throughout, its inputs low again
AgedBlocks ==
    { [kind |-> "CTU", CU |-> FALSE, R |-> FALSE, PV |-> 0,
       CV |-> CounterRange - 2, Q |-> TRUE, lastCU |-> FALSE],
      [kind |-> "CTUD", CU |-> FALSE, CD |-> FALSE, R |-> FALSE,
       LD |-> FALSE, PV |-> 0, CV |-> CounterRange - 2, QU |-> TRUE,
       QD |-> FALSE, lastCU |-> FALSE, lastCD |-> FALSE] }

FBInit ==
    /\ fb \in FreshBlocks \cup AgedBlocks
    /\ now = 0
    /\ \E preset \in Presets :
         fbg = [preset |-> preset,   \* the constant assigned to PT or PV
                evaluated |-> FALSE, \* the last step was an evaluation
                evals |-> 0,         \* evaluations so far
                at |-> 0,            \* clock at the last evaluation's end
                pre |-> fb,          \* the block as the last evaluation
                                     \* found it
                prev |-> fb,         \* the block as the evaluation before
                                     \* the last found it
                since |-> -1,        \* TON: clock at the first evaluation
                                     \* of the run of evaluations with IN
                                     \* true; TOF: at the first evaluation
                                     \* with IN false after one with IN true
                edges |-> IF fb.kind = "CTU" THEN fb.CV ELSE 0,
                                     \* rising edges on CU since CV = 0
                noReset |-> TRUE]    \* no evaluation had R true
    /\ tp = <<>> /\ tpg = <<>>
    /\ ImageIdle /\ ParseIdle /\ RefIdle /\ IOIdle
    /\ BACIdle

\* clock at the start of the condition a timer measures, after an
\* evaluation that found the block as b while the clock showed first
Since(b, first) ==
    IF b.kind = "TON"
    THEN (IF ~b.IN_ THEN -1 ELSE IF fbg.since >= 0 THEN fbg.since ELSE first)
    ELSE IF b.kind = "TOF"
    THEN (IF b.IN_ THEN -1
          ELSE IF fbg.evals > 0 /\ fbg.pre.IN_ THEN first
          ELSE fbg.since)
    ELSE -1

\* the block of the run, of the given kind, is evaluated and becomes after;
\* the clock advances by d between the evaluation's calls of elapsed()
Evaluate(kind, after, d) ==
    /\ fb.kind = kind
    /\ fbg.evals < MaxEvals
    /\ now + d <= MaxTime
    /\ fb' = after
    /\ now' = now + d
    /\ fbg' = [fbg EXCEPT
                 !.evaluated = TRUE,
                 !.evals = fbg.evals + 1,
                 !.at = now + d,
                 !.pre = fb,
                 !.prev = fbg.pre,
                 !.since = Since(fb, now),
                 !.edges = IF kind = "CTU" /\ fb.CU /\ ~fbg.pre.CU
                           THEN fbg.edges + 1 ELSE fbg.edges,
                 !.noReset = fbg.noReset /\ ~(kind = "CTU" /\ fb.R)]
    /\ UNCHANGED <<bacVars, tp, tpg, imageVars, parseVars, refVars, ioVars>>

EvalTON ==
    \E d \in {0, 1} :
        /\ d = 1 => ElapsedCalls(fb) = 2
        /\ Evaluate("TON", TON_call(fb, now, now + d), d)

EvalTOF ==
    \E d \in {0, 1} :
        /\ d = 1 => ElapsedCalls(fb) = 2
        /\ Evaluate("TOF", TOF_call(fb, now, now + d), d)

EvalSR == Evaluate("SR", SR_call(fb), 0)

EvalRS == Evaluate("RS", RS_call(fb), 0)

EvalR_TRIG == Evaluate("R_TRIG", R_TRIG_call(fb), 0)

EvalF_TRIG == Evaluate("F_TRIG", F_TRIG_call(fb), 0)

EvalCTU == Evaluate("CTU", CTU_call(fb), 0)

EvalCTD == Evaluate("CTD", CTD_call(fb), 0)

EvalCTUD == Evaluate("CTUD", CTUD_call(fb), 0)

\* the program assigns the inputs of the block, which becomes after
Assign(kind, after) ==
    /\ fb.kind = kind
    /\ fb' = after
    /\ fbg' = [fbg EXCEPT !.evaluated = FALSE]
    /\ UNCHANGED <<bacVars, now, tp, tpg, imageVars, parseVars, refVars, ioVars>>

AssignTimer ==
    \E kind \in {"TON", "TOF"}, level \in BOOLEAN :
        Assign(kind, [fb EXCEPT !.IN_ = level, !.PT = fbg.preset])

AssignSR ==
    \E s \in BOOLEAN, r \in BOOLEAN :
        Assign("SR", [fb EXCEPT !.S1 = s, !.R = r])

AssignRS ==
    \E s \in BOOLEAN, r \in BOOLEAN :
        Assign("RS", [fb EXCEPT !.S = s, !.R1 = r])

AssignTrigger ==
    \E kind \in {"R_TRIG", "F_TRIG"}, level \in BOOLEAN :
        Assign(kind, [fb EXCEPT !.CLK = level])

AssignCTU ==
    \E cu \in BOOLEAN, r \in BOOLEAN :
        Assign("CTU", [fb EXCEPT !.CU = cu, !.R = r, !.PV = fbg.preset])

AssignCTD ==
    \E cd \in BOOLEAN, ld \in BOOLEAN :
        Assign("CTD", [fb EXCEPT !.CD = cd, !.LD = ld, !.PV = fbg.preset])

AssignCTUD ==
    \E cu \in BOOLEAN, cd \in BOOLEAN, r \in BOOLEAN, ld \in BOOLEAN :
        Assign("CTUD", [fb EXCEPT !.CU = cu, !.CD = cd, !.R = r, !.LD = ld,
                                  !.PV = fbg.preset])

\* time passes between the scans of a timer
FBTick ==
    \E d \in {1, 2} :
        /\ fb.kind \in {"TON", "TOF"}
        /\ now + d <= MaxTime
        /\ now' = now + d
        /\ fbg' = [fbg EXCEPT !.evaluated = FALSE]
        /\ UNCHANGED <<bacVars, fb, tp, tpg, imageVars, parseVars, refVars, ioVars>>

FBNext ==
    \/ EvalTON \/ EvalTOF \/ EvalSR \/ EvalRS \/ EvalR_TRIG \/ EvalF_TRIG
    \/ EvalCTU \/ EvalCTD \/ EvalCTUD
    \/ AssignTimer \/ AssignSR \/ AssignRS \/ AssignTrigger
    \/ AssignCTU \/ AssignCTD \/ AssignCTUD
    \/ FBTick

SpecFB == FBInit /\ [][FBNext]_vars

\* C12: TON with IN true on every evaluation from a first one at t0 (t0 = 0
\* included): after each of them ET = now - t0 and Q is true iff
\* now - t0 >= PT; an evaluation with IN false sets ET = 0 and Q = false.
C12_OnDelay ==
    (fb.kind = "TON" /\ fbg.evaluated)
    => IF fbg.pre.IN_
       THEN /\ fb.ET = fbg.at - fbg.since
            /\ fb.Q <=> (fbg.at - fbg.since >= fb.PT)
       ELSE fb.ET = 0 /\ ~fb.Q

\* C13: TOF: every evaluation with IN true sets Q true and ET = 0; with IN
\* false on every evaluation from a first one at t1 that follows an
\* evaluation with IN true, Q is true while now - t1 < PT, false from the
\* first evaluation with now - t1 >= PT on, until an evaluation with IN true.
C13_OffDelay ==
    (fb.kind = "TOF" /\ fbg.evaluated)
    => IF fbg.pre.IN_
       THEN fb.Q /\ fb.ET = 0
       ELSE fbg.since >= 0 => (fb.Q <=> (fbg.at - fbg.since < fb.PT))

\* C14: R_TRIG: after an evaluation OUT is true iff CLK was false at the
\* previous evaluation (or there was none) and is true at this one, and OUT
\* is never true after two consecutive evaluations.  F_TRIG: OUT is true iff
\* CLK was true at the previous evaluation and is false at this one.
C14_EdgeTriggers ==
    /\ (fb.kind = "R_TRIG" /\ fbg.evaluated)
       => /\ fb.OUT <=> (fbg.pre.CLK /\ (fbg.evals = 1 \/ ~fbg.prev.CLK))
          /\ ~(fb.OUT /\ fbg.pre.OUT)
    /\ (fb.kind = "F_TRIG" /\ fbg.evaluated)
       => (fb.OUT <=> (~fbg.pre.CLK /\ fbg.evals > 1 /\ fbg.prev.CLK))

\* C14 witness: CLK was high at two evaluations in a row, so that OUT was
\* true after the first and is false after the second
C14_Witness ==
    /\ fb.kind = "R_TRIG" /\ fbg.evaluated
    /\ fbg.pre.CLK /\ fbg.prev.CLK /\ fbg.evals > 1
    /\ fbg.pre.OUT /\ ~fb.OUT

\* CTU, as stated without a limit on N: starting from CV = 0, after N rising
\* edges on CU and no evaluation with R true CV = N, and after every
\* evaluation Q is true iff CV >= PV.
C15_CountsEveryEdge ==
    (fb.kind = "CTU" /\ fbg.evaluated)
    => /\ fbg.noReset => fb.CV = fbg.edges
       /\ fb.Q <=> (fb.CV >= fb.PV)

\* C15: CTU: starting from CV = 0, after N < 2^16 rising edges on CU and no
\* evaluation with R true CV = N, and after every evaluation Q is true iff
\* CV >= PV.
C15_CountsEdges ==
    (fb.kind = "CTU" /\ fbg.evaluated)
    => /\ (fbg.noReset /\ fbg.edges < CounterRange) => fb.CV = fbg.edges
       /\ fb.Q <=> (fb.CV >= fb.PV)

\* C15 witness: CU was held high over two evaluations, one rising edge was
\* counted and the counter has not reached PV
C15_Witness ==
    /\ fb.kind = "CTU" /\ fbg.evaluated /\ fbg.noReset
    /\ fbg.pre.CU /\ fbg.prev.CU /\ fbg.evals > 1
    /\ fbg.edges = 1 /\ fb.CV = 1 /\ fb.PV > 1 /\ ~fb.Q

\* a rising edge of the CD input at the last evaluation
RisingCD == fbg.pre.CD /\ ~(fbg.evals > 1 /\ fbg.prev.CD)

\* a rising edge of the CU input at the last evaluation
RisingCU == fbg.pre.CU /\ ~(fbg.evals > 1 /\ fbg.prev.CU)

\* C16: CTD: an evaluation with LD true sets CV = PV; otherwise a rising
\* edge on CD decrements CV by 1 when CV > 0 and leaves it at 0 when CV = 0;
\* after every evaluation Q is true iff CV = 0.
C16_DownCounter ==
    (fb.kind = "CTD" /\ fbg.evaluated)
    => /\ fbg.pre.LD => fb.CV = fbg.pre.PV
       /\ (~fbg.pre.LD /\ RisingCD /\ fbg.pre.CV > 0)
          => fb.CV = fbg.pre.CV - 1
       /\ (~fbg.pre.LD /\ RisingCD /\ fbg.pre.CV = 0) => fb.CV = 0
       /\ (~fbg.pre.LD /\ ~RisingCD) => fb.CV = fbg.pre.CV
       /\ fb.CV >= 0
       /\ fb.Q <=> (fb.CV = 0)

\* C16 witness: a rising edge on CD arrived while CV was 0 and LD false
C16_Witness ==
    /\ fb.kind = "CTD" /\ fbg.evaluated
    /\ ~fbg.pre.LD /\ RisingCD /\ fbg.pre.CV = 0
    /\ fb.CV = 0 /\ fb.Q

\* C17: CTUD: R true forces CV = 0 whatever LD, CU and CD are; otherwise LD
\* true forces CV = PV whatever CU and CD are; with both false CV changes
\* only on a rising edge of CU or CD; after every evaluation QU is true iff
\* CV >= PV and QD is true iff CV = 0.
C17_UpDownPriority ==
    (fb.kind = "CTUD" /\ fbg.evaluated)
    => /\ fbg.pre.R => fb.CV = 0
       /\ (~fbg.pre.R /\ fbg.pre.LD) => fb.CV = fbg.pre.PV
       /\ (~fbg.pre.R /\ ~fbg.pre.LD /\ ~RisingCU /\ ~RisingCD)
          => fb.CV = fbg.pre.CV
       /\ fb.QU <=> (fb.CV >= fb.PV)
       /\ fb.QD <=> (fb.CV = 0)

\* C17 witness: R and LD were both true with PV > 0 and a rising edge on CU,
\* and the counter, not 0 before, was cleared
C17_Witness ==
    /\ fb.kind = "CTUD" /\ fbg.evaluated
    /\ fbg.pre.R /\ fbg.pre.LD /\ RisingCU
    /\ fbg.pre.PV > 0 /\ fbg.pre.CV > 0
    /\ fb.CV = 0 /\ fb.QD /\ ~fb.QU

\* C18: after an evaluation with both inputs true SR.Q1 is true and RS.Q1 is
\* false; with both inputs false Q1 keeps its value in both blocks.
C18_Dominance ==
    /\ (fb.kind = "SR" /\ fbg.evaluated)
       => /\ (fbg.pre.S1 /\ fbg.pre.R) => fb.Q1
          /\ (~fbg.pre.S1 /\ ~fbg.pre.R) => fb.Q1 = fbg.pre.Q1
    /\ (fb.kind = "RS" /\ fbg.evaluated)
       => /\ (fbg.pre.S /\ fbg.pre.R1) => ~fb.Q1
          /\ (~fbg.pre.S /\ ~fbg.pre.R1) => fb.Q1 = fbg.pre.Q1

\* C18 witness: SR was evaluated with S1 and R both true while Q1 was false
C18_Witness ==
    /\ fb.kind = "SR" /\ fbg.evaluated
    /\ fbg.pre.S1 /\ fbg.pre.R /\ ~fbg.pre.Q1
    /\ fb.Q1

----------------------------------------------------------------------------
(* The I/O supervisor: the registry Clients, mapIO and superviseIO.  The    *)
(* protocol adapters are the pure virtual members of IOClient; what they    *)
(* return is an input of the model.                                         *)

\* poll: a disconnected client retries connect() after this many ms
ConnectRetry == 15000

\* s.find(needle) != std::string::npos
Find(s, needle) ==
    \E i \in 1..(Len(s) - Len(needle) + 1) :
        SubSeq(s, i, i + Len(needle) - 1) = needle

\* the members of a mapIO payload that IOMap::IOMap converts to a string
RequiredMembers ==
    {"ModuleID", "ModulePort", "InternalAddress", "RemoteAddress",
     "RemoteSize", "PollTime", "Protocol"}

\* the descriptors handed to mapIO, as json::parse and std::atoi read them:
\* form tells whether the text is a JSON object, absent which members it
\* lacks, numeric which members are JSON numbers instead of strings
Descriptors ==
    { [form |-> "object", absent |-> {}, numeric |-> {},
       ModuleID |-> "192.168.9.17", Protocol |-> "MODBUS-TCP",
       RemoteAddress |-> "0", RemoteSize |-> 1,
       InternalAddress |-> <<"%", "I", "X", "0", ".", "0">>, PollTime |-> 2],
      [form |-> "object", absent |-> {}, numeric |-> {},
       ModuleID |-> "192.168.9.17", Protocol |-> "MODBUS-TCP",
       RemoteAddress |-> "16", RemoteSize |-> 1,
       InternalAddress |-> <<"%", "Q", "X", "0", ".", "0">>, PollTime |-> 3],
      [form |-> "object", absent |-> {}, numeric |-> {},
       ModuleID |-> "opc.tcp://localhost:4334/UA/imperium",
       Protocol |-> "OPCUA", RemoteAddress |-> "Input1", RemoteSize |-> 8,
       InternalAddress |-> <<"%", "I", "X", "1">>, PollTime |-> 2] }

\* IOMap::IOMap(mapJson) throws: json::parse rejects the text, or operator[]
\* or the conversion to std::string rejects a member
IOMap_throws(desc) ==
    \/ desc.form # "object"
    \/ \E k \in RequiredMembers : k \in desc.absent \cup desc.numeric

\* IOMap::IOMap(mapJson), built while elapsed() returns t
IOMap(desc, t) ==
    [direction |-> IF Find(desc.InternalAddress, <<"%", "Q">>)
                   THEN "Output" ELSE "Input",
     moduleID |-> desc.ModuleID,
     protocol |-> desc.Protocol,
     remoteAddress |-> desc.RemoteAddress,
     localAddress |-> desc.InternalAddress,
     width |-> desc.RemoteSize,
     interval |-> desc.PollTime,
     lastPoll |-> t]

\* a constructor that leaves lastAttempt one retry period in the past
IOClient_DueAtStart(protocol) ==
    [protocol |-> protocol, moduleID |-> "", connected |-> FALSE,
     lastAttempt |-> 0 - ConnectRetry, mappings |-> <<>>]

\* IOClient::IOClient(protocol)
IOClient(protocol) ==
    [protocol |-> protocol, moduleID |-> "", connected |-> FALSE,
     lastAttempt |-> 0, mappings |-> <<>>]

\* IOClient::hasMapping
hasMapping(client, localAddress) ==
    \E i \in DOMAIN client.mappings :
        client.mappings[i].localAddress = localAddress

\* IOClient::addMapping
addMapping(client, map) ==
    IF ~hasMapping(client, map.localAddress)
    THEN [client EXCEPT
            !.moduleID = IF Len(client.mappings) = 0 THEN map.moduleID
                         ELSE client.moduleID,
            !.mappings = Append(client.mappings, map)]
    ELSE client

\* findClient that looks for a client holding the local address only
findClient_ByAddress(cs, map) ==
    [clients |-> cs,
     found |-> \E x \in DOMAIN cs : hasMapping(cs[x], map.localAddress)]

\* findClient: the registry afterwards, and whether a client was returned
findClient(cs, map) ==
    LET hits == { x \in DOMAIN cs :
                    \/ hasMapping(cs[x], map.localAddress)
                    \/ cs[x].moduleID = map.moduleID }
    IN  IF hits = {} THEN [clients |-> cs, found |-> FALSE]
        ELSE LET x == CHOOSE h \in hits : \A k \in hits : h <= k
             IN  [clients |-> IF hasMapping(cs[x], map.localAddress) THEN cs
                              ELSE [cs EXCEPT ![x] = addMapping(cs[x], map)],
                  found |-> TRUE]

\* createClient: the clients to register, none for an unknown protocol
createClient(map) ==
    IF map.protocol = "MODBUS-TCP"
    THEN <<addMapping(IOClient("MODBUS-TCP"), map)>>
    ELSE IF map.protocol = "OPCUA"
    THEN <<addMapping(IOClient("opcua"), map)>>
    ELSE <<>>

\* mapIO without the try block, IOMap::IOMap accepting every payload
mapIO_Unchecked(cs, desc, t) ==
    LET newMap == IOMap(desc, t)
        existing == findClient(cs, newMap)
    IN  IF existing.found THEN existing.clients
        ELSE cs \o createClient(newMap)

\* mapIO(map), called while elapsed() returns t: the registry afterwards
mapIO(cs, desc, t) ==
    IF IOMap_throws(desc) THEN cs
    ELSE LET newMap == IOMap(desc, t)
             existing == findClient(cs, newMap)
         IN  IF existing.found THEN existing.clients
             ELSE cs \o createClient(newMap)

\* what an adapter call can do: take delay ms, and fail, throw, or succeed
\* (a read then delivers the low or the high remote value)
AdapterChoices ==
    [delay : {0, 1}, result : {"fail", "throw", "low", "high"}]

\* what connect() can do
ConnectChoices == {"up", "down", "throw"}

\* the low or high remote value of a mapping of the given width
RemoteValue(width, k) ==
    IF k # "high" THEN 0
    ELSE IF width = 1 THEN 1
    ELSE IF width = 8 THEN 90
    ELSE IF width = 16 THEN 4660
    ELSE 305419896

\* poll: elapsed() - map.lastPoll >= map.interval, in uint64_t
Due_AtInterval(t, map) ==
    IF map.interval < 0 THEN FALSE ELSE t - map.lastPoll >= map.interval

\* poll: elapsed() - map.lastPoll > map.interval, in uint64_t
Due(t, map) ==
    IF map.interval < 0 THEN FALSE ELSE t - map.lastPoll > map.interval

\* poll: the local read of a due Output mapping
LocalRead(m, be, map) ==
    IF map.width = 1 THEN readBit(m, be, map.localAddress)
    ELSE IF map.width = 8 THEN readByte(m, be, map.localAddress)
    ELSE IF map.width = 16 THEN readWord(m, be, map.localAddress)
    ELSE readDWord(m, be, map.localAddress)

\* poll: the local write of a due Input mapping, a bit being stored negated
LocalWrite_Negated(m, be, map, val) ==
    IF map.width = 1 THEN writeBit(m, be, map.localAddress, ~(val > 0))
    ELSE IF map.width = 8 THEN writeByte(m, be, map.localAddress, val)
    ELSE IF map.width = 16 THEN writeWord(m, be, map.localAddress, val)
    ELSE writeDWord(m, be, map.localAddress, val)

\* a local write that lands one index after the mapping's local address
LocalWrite_NextIndex(m, be, map, val) ==
    LET parts == parseAddress(map.localAddress)
        next == Format(map.localAddress[2], map.localAddress[3],
                       parts.index + 1, parts.bit)
    IN  IF map.width = 1 THEN writeBit(m, be, next, val > 0)
        ELSE IF map.width = 8 THEN writeByte(m, be, next, val)
        ELSE IF map.width = 16 THEN writeWord(m, be, next, val)
        ELSE writeDWord(m, be, next, val)

\* poll: the local write of a due Input mapping whose remote read gave val
LocalWrite(m, be, map, val) ==
    IF map.width = 1 THEN writeBit(m, be, map.localAddress, val > 0)
    ELSE IF map.width = 8 THEN writeByte(m, be, map.localAddress, val)
    ELSE IF map.width = 16 THEN writeWord(m, be, map.localAddress, val)
    ELSE writeDWord(m, be, map.localAddress, val)

\* the position of mapping mi of client ci among all mappings of the registry
RECURSIVE MapIndex(_, _, _)
MapIndex(cs, ci, mi) ==
    IF ci = 1 THEN mi ELSE Len(cs[ci - 1].mappings) + MapIndex(cs, ci - 1, mi)

\* poll: the body of the loop over the mappings, for mapping mi of client
\* ci; st is the program state with the clock and the ghost records
PollMap(st, ci, mi, c) ==
    LET map == st.clients[ci].mappings[mi]
        t2 == st.clock + c.delay
        checked == [client |-> ci, local |-> map.localAddress,
                    checkedAt |-> st.clock, lastPollBefore |-> map.lastPoll,
                    interval |-> map.interval,
                    polled |-> Due(st.clock, map),
                    polledAt |-> IF Due(st.clock, map) THEN t2 ELSE 0,
                    adapter |-> IF Due(st.clock, map) THEN c.result
                                ELSE "fail"]
        st1 == [st EXCEPT !.clients[ci].mappings[mi].lastPoll = t2,
                          !.clock = t2,
                          !.examined = st.examined \cup {checked},
                          !.due = st.due \cup {MapIndex(st.clients, ci, mi)}]
        request(kind, val) == [client |-> ci, local |-> map.localAddress,
                               kind |-> kind, at |-> t2, value |-> val]
    IN  IF ~Due(st.clock, map)
        THEN [st EXCEPT !.examined = st.examined \cup {checked}]
        ELSE IF map.width \notin {1, 8, 16, 32} THEN st1
        ELSE IF map.direction = "Output"
        THEN LET rd == LocalRead(st.mem, st.be, map)
             IN  IF rd.outcome = "ok"
                 THEN [st1 EXCEPT !.log = Append(st.log,
                                                 request("write", rd.ret))]
                 ELSE IF rd.outcome = "throw" THEN st1
                 ELSE [st1 EXCEPT !.crashed = TRUE]
        ELSE LET st2 == [st1 EXCEPT !.log = Append(st.log,
                                                   request("read", 0))]
                 wr == LocalWrite(st.mem, st.be, map,
                                  RemoteValue(map.width, c.result))
             IN  IF c.result \in {"fail", "throw"} THEN st2
                 ELSE IF wr.outcome = "ok"
                 THEN [st2 EXCEPT !.mem = wr.mem,
                                  !.stored = st.stored \cup
                                      {[client |-> ci,
                                        local |-> map.localAddress]}]
                 ELSE IF wr.outcome = "throw" THEN st2
                 ELSE [st2 EXCEPT !.crashed = TRUE]

\* poll: the loop over the mappings of client ci, from mapping mi on (the
\* state after each turn of the loop is computed once, as s)
RECURSIVE PollMappings(_, _, _, _)

\* the loop over the mappings inside one try block: a throwing adapter ends it
PollMappings_OneTry(st, ci, mi, ch) ==
    IF mi > Len(st.clients[ci].mappings) \/ st.crashed THEN st
    ELSE CHOOSE r \in
           { IF /\ MapIndex(st.clients, ci, mi) \in s.due
                /\ ch[MapIndex(st.clients, ci, mi)].result = "throw"
             THEN s
             ELSE PollMappings(s, ci, mi + 1, ch) :
               s \in {PollMap(st, ci, mi, ch[MapIndex(st.clients, ci, mi)])} }
           : TRUE

PollMappings(st, ci, mi, ch) ==
    IF mi > Len(st.clients[ci].mappings) \/ st.crashed THEN st
    ELSE CHOOSE r \in
           { PollMappings(s, ci, mi + 1, ch) :
               s \in {PollMap(st, ci, mi, ch[MapIndex(st.clients, ci, mi)])} }
           : TRUE

\* IOClient::poll with a disconnected client that calls connect() at once
poll_NoWait(st, ci, ch, conn) ==
    LET client == st.clients[ci]
    IN  IF client.connected THEN PollMappings(st, ci, 1, ch)
        ELSE [st EXCEPT !.clients[ci].lastAttempt = st.clock,
                        !.clients[ci].connected = (conn[ci] = "up"),
                        !.connects = st.connects \cup {ci},
                        !.attempts = st.attempts
                                     \cup {[client |-> ci, at |-> st.clock]},
                        !.thrown = (conn[ci] = "throw")]

\* IOClient::poll of client ci; the result tells whether an exception left it
poll(st, ci, ch, conn) ==
    LET client == st.clients[ci]
    IN  IF client.connected THEN PollMappings(st, ci, 1, ch)
        ELSE IF st.clock - client.lastAttempt >= ConnectRetry
        THEN [st EXCEPT !.clients[ci].lastAttempt = st.clock,
                        !.clients[ci].connected = (conn[ci] = "up"),
                        !.connects = st.connects \cup {ci},
                        !.attempts = st.attempts
                                     \cup {[client |-> ci, at |-> st.clock]},
                        !.thrown = (conn[ci] = "throw")]
        ELSE st

\* superviseIO: the loop over the clients, from client ci on
RECURSIVE superviseIO(_, _, _, _)
superviseIO(st, ci, ch, conn) ==
    IF ci > Len(st.clients) \/ st.crashed \/ st.thrown THEN st
    ELSE CHOOSE r \in
           { superviseIO(s, ci + 1, ch, conn) : s \in {poll(st, ci, ch, conn)} }
           : TRUE

\* the number of mappings in the registry
RECURSIVE TotalMappings(_, _)
TotalMappings(cs, n) ==
    IF n = 0 THEN 0 ELSE Len(cs[n].mappings) + TotalMappings(cs, n - 1)

\* the mappings of the first n clients in the order superviseIO visits them,
\* each with its client's connected flag
RECURSIVE FlatMappings(_, _)
FlatMappings(cs, n) ==
    IF n = 0 THEN <<>>
    ELSE FlatMappings(cs, n - 1)
         \o [i \in DOMAIN cs[n].mappings
               |-> [connected |-> cs[n].connected, map |-> cs[n].mappings[i]]]

\* what the adapters can do in one superviseIO call that begins at time t,
\* for the first k mappings, and the time when poll reaches the next one: an
\* adapter that is not called makes no choice, and a remote write delivers
\* no value
RECURSIVE AdapterRuns(_, _, _)
AdapterRuns(flat, t, k) ==
    IF k = 0 THEN {[ch |-> <<>>, clock |-> t]}
    ELSE UNION
           { { [ch |-> Append(r.ch, c), clock |-> r.clock + c.delay] :
                 c \in IF flat[k].connected /\ Due(r.clock, flat[k].map)
                       THEN { a \in AdapterChoices :
                                flat[k].map.direction = "Output"
                                => a.result # "high" }
                       ELSE {[delay |-> 0, result |-> "fail"]} } :
               r \in AdapterRuns(flat, t, k - 1) }

\* program start: the registry is empty, the image zero, the clock at 0
IOInit ==
    /\ clients = <<>>
    /\ remote = [log |-> <<>>]       \* the adapter requests issued, in order
    /\ iog = [maps |-> 0,            \* mapIO calls so far
              scans |-> 0,           \* superviseIO calls so far
              called |-> FALSE,      \* the last step was a superviseIO call
              examined |-> {},       \* the mappings that call examined
              connects |-> {},       \* the clients that call connected
              stored |-> {},         \* the mappings it wrote MEMORY for
              attempts |-> {},       \* every connect() call so far, and when
              crashed |-> FALSE]     \* an access outside MEMORY happened
    /\ mem = ZeroMemory
    /\ bigEndian = FALSE   \* the mappings move bits and bytes, which do
                           \* not depend on the byte order
    /\ last = [op |-> "none", addr |-> <<>>, value |-> 0, outcome |-> "ok",
               what |-> "", ret |-> 0]
    /\ nops = 0
    /\ now = 0 /\ tp = <<>> /\ tpg = <<>>
    /\ PROGRAM_COUNT = 0
    /\ ParseIdle /\ RefIdle /\ FBIdle
    /\ BACIdle

\* main calls mapIO(map) at program start, before it enters the scan loop
MapIO ==
    \E desc \in Descriptors :
        /\ iog.maps < MaxMaps
        /\ iog.scans = 0
        /\ now = 0
        /\ clients' = mapIO(clients, desc, now)
        /\ iog' = [iog EXCEPT !.maps = iog.maps + 1, !.called = FALSE]
        /\ UNCHANGED <<bacVars, remote, now, tp, tpg, PROGRAM_COUNT, imageVars,
                       parseVars, refVars, fbVars>>

\* the scan loop calls superviseIO()
SuperviseIO ==
    /\ iog.scans < MaxScans
    /\ ~iog.crashed
    /\ \E conn \in [1..Len(clients) -> ConnectChoices] :
        \* an adapter that is not called makes no choice
        /\ \A c \in DOMAIN conn : clients[c].connected => conn[c] = "down"
        /\ \E ch \in { r.ch : r \in AdapterRuns(
                                   FlatMappings(clients, Len(clients)), now,
                                   TotalMappings(clients, Len(clients))) } :
            /\ \E st \in {superviseIO([clients |-> clients, mem |-> mem,
                                       be |-> bigEndian, clock |-> now,
                                       log |-> remote.log, examined |-> {},
                                       due |-> {}, connects |-> {},
                                       stored |-> {},
                                       attempts |-> iog.attempts,
                                       crashed |-> FALSE, thrown |-> FALSE],
                                      1, ch, conn)} :
                /\ \A i \in DOMAIN ch :
                     i \notin st.due
                     => ch[i] = [delay |-> 0, result |-> "fail"]
                /\ \A c \in DOMAIN conn :
                     c \notin st.connects => conn[c] = "down"
                /\ st.clock <= 2 * ConnectRetry + MaxWait
                /\ (st.clock + 1) % ConnectRetry <= MaxWait + 1
                /\ clients' = st.clients
                /\ mem' = st.mem
                /\ now' = st.clock
                /\ remote' = [remote EXCEPT !.log = st.log]
                /\ iog' = [iog EXCEPT !.scans = iog.scans + 1,
                                      !.called = TRUE,
                                      !.examined = st.examined,
                                      !.connects = st.connects,
                                      !.stored = st.stored,
                                      !.attempts = st.attempts,
                                      !.crashed = st.crashed]
                /\ UNCHANGED <<bacVars, bigEndian, last, nops, tp, tpg, PROGRAM_COUNT,
                               parseVars, refVars, fbVars>>

\* time passes between two calls: a scan's sleep or, while no client is
\* connected, the wait for the next connect() (from program start, up to the
\* last millisecond before the first one is due, or up to that moment)
IOTick ==
    \E d \in {1, 2, ConnectRetry - 1, ConnectRetry} :
        /\ d < ConnectRetry - 1 => now >= ConnectRetry - 1
        /\ d = ConnectRetry - 1 => now = 0
        /\ d = ConnectRetry
           => \/ now = 0
              \/ /\ now <= ConnectRetry + MaxWait
                 /\ clients # <<>>
                 /\ \A c \in DOMAIN clients :
                      ~clients[c].connected /\ clients[c].lastAttempt > 0
        /\ now + d <= 2 * ConnectRetry + MaxWait
        /\ (now + d + 1) % ConnectRetry <= MaxWait + 1
        /\ now' = now + d
        /\ iog' = [iog EXCEPT !.called = FALSE, !.examined = {},
                              !.connects = {}, !.stored = {}]
        /\ UNCHANGED <<bacVars, clients, remote, tp, tpg, PROGRAM_COUNT, imageVars,
                       parseVars, refVars, fbVars>>

IONext == MapIO \/ SuperviseIO \/ IOTick

SpecIO == IOInit /\ [][IONext]_vars

\* descriptors of one module with a mapping of every width in each direction
WidthDescriptors ==
    { [form |-> "object", absent |-> {}, numeric |-> {},
       ModuleID |-> "192.168.9.17", Protocol |-> "MODBUS-TCP",
       RemoteAddress |-> "0", RemoteSize |-> w.size,
       InternalAddress |-> <<"%", space>> \o w.local, PollTime |-> 2] :
        space \in {"I", "Q"},
        w \in { [size |-> 1, local |-> <<"X", "0", ".", "0">>],
                [size |-> 8, local |-> <<"X", "1">>],
                [size |-> 16, local |-> <<"W", "2">>],
                [size |-> 32, local |-> <<"D", "2">>],
                [size |-> 64, local |-> <<"L", "2">>] } }

\* program start of a main that made one mapIO call, with one of the
\* descriptors of WidthDescriptors, on a host of either byte order
WidthInit ==
    /\ \E desc \in WidthDescriptors : clients = mapIO(<<>>, desc, 0)
    /\ remote = [log |-> <<>>]
    /\ iog = [maps |-> 1, scans |-> 0, called |-> FALSE, examined |-> {},
              connects |-> {}, stored |-> {}, attempts |-> {},
              crashed |-> FALSE]
    /\ mem = ZeroMemory
    /\ bigEndian \in BOOLEAN
    /\ last = [op |-> "none", addr |-> <<>>, value |-> 0, outcome |-> "ok",
               what |-> "", ret |-> 0]
    /\ nops = 0
    /\ now = 0 /\ tp = <<>> /\ tpg = <<>>
    /\ PROGRAM_COUNT = 0
    /\ ParseIdle /\ RefIdle /\ FBIdle
    /\ BACIdle

WidthNext == SuperviseIO \/ IOTick

SpecWidth == WidthInit /\ [][WidthNext]_vars

\* the scan loop runs the program when PROGRAM_COUNT is a multiple of this
ProgramEvery == 100

\* std::numeric_limits<uint64_t>::max().  PROGRAM_COUNT is a uint64_t; the
\* model holds its value read as a two's complement number, so that the
\* values next to the maximum are -2, -3, ... and the maximum itself is -1
UINT64_MAX == -1

\* PROGRAM_COUNT % n for 0 < n < 200: 2^64 = 65536^4 is added to a value held
\* as a negative number
CountMod(c, n) ==
    LET r == 65536 % n
        p == (((r * r) % n) * ((r * r) % n)) % n
    IN  IF c >= 0 THEN c % n ELSE (p + c) % n

\* PROGRAM_COUNT++; if(PROGRAM_COUNT >= max) PROGRAM_COUNT = 0;
NextCount(c) == IF c + 1 = UINT64_MAX THEN 0 ELSE c + 1

\* the payloads of the three mapIO calls of the generated main
MainDescriptors ==
    << [form |-> "object", absent |-> {"AdditionalProperties"},
        numeric |-> {},
        ModuleID |-> "192.168.9.17", Protocol |-> "MODBUS-TCP",
        RemoteAddress |-> "0", RemoteSize |-> 1,
        InternalAddress |-> <<"%", "I", "X", "0", ".", "0">>,
        PollTime |-> 500],
       [form |-> "object", absent |-> {"AdditionalProperties"},
        numeric |-> {},
        ModuleID |-> "192.168.9.17", Protocol |-> "MODBUS-TCP",
        RemoteAddress |-> "16", RemoteSize |-> 1,
        InternalAddress |-> <<"%", "Q", "X", "0", ".", "0">>,
        PollTime |-> 500],
       [form |-> "object", absent |-> {"AdditionalProperties"},
        numeric |-> {},
        ModuleID |-> "opc.tcp://localhost:4334/UA/imperium",
        Protocol |-> "OPCUA", RemoteAddress |-> "Input1", RemoteSize |-> 1,
        InternalAddress |-> <<"%", "I", "X", "0", ".", "1">>,
        PollTime |-> 1000] >>

\* RefVar<bool> SW1("%IX0.0") and SW2("%IX0.1")
SW1 == [type |-> "bool", address |-> <<"%", "I", "X", "0", ".", "0">>,
        cache |-> 0]

SW2 == [type |-> "bool", address |-> <<"%", "I", "X", "0", ".", "1">>,
        cache |-> 0]

\* PLC_LD(), run at time t with the static block PLS1 = b: how it ends, and
\* MEMORY and PLS1 afterwards (the result of each statement is computed
\* once: b1 is PLS1 after PLS1(), b2 after the two assignments, w1 and w2
\* are the writeBit calls, sw1 and sw2 the reads of SW1 and SW2)
PLC_LD(m, be, b, t) ==
    LET Q0 == <<"%", "Q", "X", "0", ".", "0">>
    IN  CHOOSE r \in UNION UNION UNION UNION UNION
        { { { { { { IF sw1.outcome # "ok"
                    THEN [outcome |-> sw1.outcome, mem |-> m, tp |-> b1]
                    ELSE IF w1.outcome # "ok"
                    THEN [outcome |-> w1.outcome, mem |-> m, tp |-> b2]
                    ELSE IF sw2.outcome # "ok"
                    THEN [outcome |-> sw2.outcome, mem |-> w1.mem, tp |-> b2]
                    ELSE [outcome |-> w2.outcome, mem |-> w2.mem, tp |-> b2] :
                      w2 \in {writeBit(w1.mem, be, Q0, sw2.ret = 1)} } :
                    sw2 \in {RefVar_get(w1.mem, be, SW2)} } :
                  w1 \in {writeBit(m, be, Q0, b2.Q)} } :
                b2 \in {[b1 EXCEPT !.IN_ = (sw1.ret = 1), !.PT = 1000]} } :
              sw1 \in {RefVar_get(m, be, SW1)} } :
            b1 \in {TP_call(b, t, t)} }
        : TRUE

\* the generated main has made its three mapIO calls and enters the loop
MainInit ==
    /\ clients = mapIO(mapIO(mapIO(<<>>, MainDescriptors[1], 0),
                             MainDescriptors[2], 0),
                       MainDescriptors[3], 0)
    /\ remote = [log |-> <<>>]
    /\ iog = [maps |-> 3, scans |-> 0, called |-> FALSE, examined |-> {},
              connects |-> {}, stored |-> {}, attempts |-> {},
              crashed |-> FALSE,
              program |-> "PLC_LD",  \* the program this main runs
              events |-> <<>>]   \* what the last turn of the loop did, in
                                 \* order: remote reads and writes, program
    /\ mem = ZeroMemory
    /\ bigEndian = FALSE
    /\ last = [op |-> "none", addr |-> <<>>, value |-> 0, outcome |-> "ok",
               what |-> "", ret |-> 0]
    /\ nops = 0
    /\ now = 0
    /\ tp = [Q |-> FALSE, IN_ |-> FALSE, PT |-> 0, ET |-> 0,
             lastIN |-> FALSE, startTime |-> 0]
    /\ tpg = <<>>
    /\ PROGRAM_COUNT \in {0, UINT64_MAX - MaxScans}  \* a fresh start, or a
                                                     \* run about to wrap
    /\ ParseIdle /\ RefIdle /\ FBIdle
    /\ BACIdle

\* one turn of the loop of main: superviseIO(), PLC_LD() when PROGRAM_COUNT
\* is a multiple of 100, the sleep of at least 1 ms, PROGRAM_COUNT++ and its
\* reset at the maximum; an exception leaves the turn at once
MainLoop ==
    /\ iog.program = "PLC_LD"
    /\ iog.scans < MaxScans
    /\ ~iog.crashed
    /\ \E conn \in [1..Len(clients) -> ConnectChoices] :
        /\ \A c \in DOMAIN conn : clients[c].connected => conn[c] = "down"
        /\ \E ch \in { r.ch : r \in AdapterRuns(
                                   FlatMappings(clients, Len(clients)), now,
                                   TotalMappings(clients, Len(clients))) } :
            \E st \in {superviseIO([clients |-> clients, mem |-> mem,
                                    be |-> bigEndian, clock |-> now,
                                    log |-> remote.log, examined |-> {},
                                    due |-> {}, connects |-> {},
                                    stored |-> {},
                                    attempts |-> iog.attempts,
                                    crashed |-> FALSE, thrown |-> FALSE],
                                   1, ch, conn)} :
              /\ \A i \in DOMAIN ch :
                   i \notin st.due => ch[i] = [delay |-> 0, result |-> "fail"]
              /\ \A c \in DOMAIN conn :
                   c \notin st.connects => conn[c] = "down"
              /\ \E d \in {1, 2, ConnectRetry} :
                 \E run \in {IF CountMod(PROGRAM_COUNT, ProgramEvery) = 0
                                /\ ~st.crashed
                             THEN PLC_LD(st.mem, bigEndian, tp, st.clock)
                             ELSE [outcome |-> "ok", mem |-> st.mem,
                                   tp |-> tp]} :
                   /\ d < ConnectRetry => st.clock >= ConnectRetry
                   /\ d = ConnectRetry => st.clock < ConnectRetry
                   /\ st.clock + d <= ConnectRetry + MaxWait
                   /\ (run.outcome # "ok" \/ st.crashed) => d = 1
                   /\ clients' = st.clients
                   /\ mem' = run.mem
                   /\ tp' = run.tp
                   /\ remote' = [remote EXCEPT !.log = st.log]
                   /\ now' = IF run.outcome = "ok" /\ ~st.crashed
                             THEN st.clock + d ELSE st.clock
                   /\ PROGRAM_COUNT' = IF run.outcome = "ok" /\ ~st.crashed
                                       THEN NextCount(PROGRAM_COUNT)
                                       ELSE PROGRAM_COUNT
                   /\ iog' = [iog EXCEPT
                        !.scans = iog.scans + 1,
                        !.called = TRUE,
                        !.examined = st.examined,
                        !.connects = st.connects,
                        !.stored = st.stored,
                        !.attempts = st.attempts,
                        !.crashed = st.crashed \/ run.outcome = "oob",
                        !.events =
                            [k \in 1..(Len(st.log) - Len(remote.log))
                               |-> st.log[Len(remote.log) + k].kind]
                            \o (IF CountMod(PROGRAM_COUNT, ProgramEvery) = 0
                                   /\ ~st.crashed
                                THEN <<"program">> ELSE <<>>)]
                   /\ UNCHANGED <<bacVars, bigEndian, last, nops, tpg, parseVars,
                                  refVars, fbVars>>

MainNext == MainLoop

SpecMain == MainInit /\ [][MainNext]_vars

\* T1(): Counter = Counter + 1, stored back into an int16_t
Timer_call(b) ==
    [b EXCEPT !.Counter = IF b.Counter + 1 > 32767 THEN b.Counter + 1 - 65536
                          ELSE b.Counter + 1]

\* PLC_PROG() of plc.cpp with the static block T1 = b: how it ends, and
\* MEMORY and T1 afterwards
PLC_PROG(m, be, b) ==
    LET I1 == <<"%", "I", "0", "0", "0", "1", ".", "0">>
        Q1 == <<"%", "Q", "0", "0", "0", "1", ".", "0">>
        b1 == Timer_call(b)
        inp == readBit(m, be, I1)
        b2 == [b1 EXCEPT !.Start = FALSE]
        set == writeBit(m, be, Q1, TRUE)
        clear == writeBit(m, be, Q1, FALSE)
    IN  IF inp.outcome # "ok"
        THEN [outcome |-> inp.outcome, mem |-> m, fb |-> b1]
        ELSE IF b1.Start /\ ~b1.Done
        THEN [outcome |-> set.outcome, mem |-> set.mem, fb |-> b1]
        ELSE IF b1.Done
        THEN [outcome |-> clear.outcome, mem |-> clear.mem, fb |-> b2]
        ELSE [outcome |-> "ok", mem |-> m, fb |-> b1]

\* the main of plc.cpp enters its loop: no mapIO call was made, T1 is a
\* zero-initialised static
ProgInit ==
    /\ clients = <<>>
    /\ remote = [log |-> <<>>]
    /\ iog = [maps |-> 0, scans |-> 0, called |-> FALSE, examined |-> {},
              connects |-> {}, stored |-> {}, attempts |-> {},
              crashed |-> FALSE, program |-> "PLC_PROG", events |-> <<>>]
    /\ ImageIdle
    /\ now = 0
    /\ tp = <<>>
    /\ tpg = <<>>
    /\ fb = [kind |-> "Timer", Start |-> FALSE, Done |-> FALSE, Counter |-> 0]
    /\ fbg = <<>>
    /\ PROGRAM_COUNT = 0
    /\ ParseIdle /\ RefIdle
    /\ BACIdle

\* one turn of the loop of the main of plc.cpp: superviseIO(), PLC_PROG(),
\* the sleep of at least 1 ms, PROGRAM_COUNT++ and its reset at the maximum;
\* an exception leaves the turn at once, for the catch of the loop
ProgLoop ==
    /\ iog.program = "PLC_PROG"
    /\ iog.scans < MaxScans
    /\ ~iog.crashed
    /\ \E st \in {superviseIO([clients |-> clients, mem |-> mem,
                                be |-> bigEndian, clock |-> now,
                                log |-> remote.log, examined |-> {},
                                due |-> {}, connects |-> {}, stored |-> {},
                                attempts |-> iog.attempts,
                                crashed |-> FALSE, thrown |-> FALSE],
                               1, <<>>, <<>>)} :
        \E run \in {PLC_PROG(st.mem, bigEndian, fb)} :
        \E d \in {0, 1, 2} :
          /\ run.outcome = "ok" => d >= 1
          /\ run.outcome # "ok" => d <= 1
          /\ clients' = st.clients
          /\ mem' = run.mem
          /\ fb' = run.fb
          /\ remote' = [remote EXCEPT !.log = st.log]
          /\ now' = st.clock + d
          /\ PROGRAM_COUNT' = IF run.outcome = "ok"
                              THEN NextCount(PROGRAM_COUNT)
                              ELSE PROGRAM_COUNT
          /\ iog' = [iog EXCEPT !.scans = iog.scans + 1,
                                !.called = TRUE,
                                !.crashed = run.outcome = "oob",
                                !.events = <<"program">>]
          /\ UNCHANGED <<bacVars, bigEndian, last, nops, tp, tpg, fbg, parseVars,
                         refVars>>

\* either generated main, at the head of its loop
LoopInit == MainInit \/ ProgInit

LoopNext == MainLoop \/ ProgLoop

SpecLoop == LoopInit /\ [][LoopNext]_vars

----------------------------------------------------------------------------
(* The BACnet specification: exchanges of one BACNETClient with its peer.  *)
(* The clock is read from the start of the call in progress: the code uses *)
(* steady_clock only through differences within one call.                  *)

\* REQUEST_TIMEOUT, in ms
REQUEST_TIMEOUT == 1000

\* the timeout handed to datalink_receive, in ms
ReceiveTimeout == 10

\* nextInvokeId() without the step over 0
nextInvokeId_NoSkip(id) ==
    [current |-> id, invokeId |-> (id + 1) % 256]

\* nextInvokeId() on a client whose invokeId is id: the id returned and
\* invokeId afterwards (a uint8_t)
nextInvokeId(id) ==
    LET incremented == (id + 1) % 256
    IN  [current |-> id,
         invokeId |-> IF incremented = 0 THEN 1 ELSE incremented]

\* what datalink_receive can hand back while the call with the given invoke
\* id waits: nothing (received <= 0), a frame npdu_decode rejects or that
\* holds fewer than 3 APDU bytes, or an APDU with its PDU type, invoke id,
\* service choice and the state of its payload
NoFrame == [type |-> "none", invoke |-> 0, service |-> "", body |-> ""]

ShortFrame == [type |-> "short", invoke |-> 0, service |-> "", body |-> ""]

Frames(invoke) ==
    {NoFrame, ShortFrame}
    \cup [type : {"complex-ack", "simple-ack", "error"},
          invoke : {invoke, (invoke % 255) + 1},
          service : {"ReadProperty", "WriteProperty"},
          body : {"value", "malformed", "empty", "undecodable"}]

\* a turn of performRead that does not compare the invoke id
performRead_turn_AnyInvoke(invoke, f) ==
    IF f.type \in {"none", "short"} THEN "continue"
    ELSE IF f.type # "complex-ack" THEN "continue"
    ELSE IF f.service # "ReadProperty" THEN "continue"
    ELSE IF f.body = "malformed" THEN "continue"
    ELSE IF f.body = "empty" THEN "false"
    ELSE IF f.body = "undecodable" THEN "false"
    ELSE "true"

\* one turn of the wait loop of performRead on the frame f: "continue", or
\* the value returned
performRead_turn(invoke, f) ==
    IF f.type \in {"none", "short"} THEN "continue"
    ELSE IF f.type # "complex-ack" THEN "continue"
    ELSE IF f.invoke # invoke THEN "continue"
    ELSE IF f.service # "ReadProperty" THEN "continue"
    ELSE IF f.body = "malformed" THEN "continue"
    ELSE IF f.body = "empty" THEN "false"
    ELSE IF f.body = "undecodable" THEN "false"
    ELSE "true"

\* one turn of the wait loop of performWrite on the frame f
performWrite_turn(invoke, f) ==
    IF f.type \in {"none", "short"} THEN "continue"
    ELSE IF f.type # "simple-ack" THEN "continue"
    ELSE IF f.invoke # invoke THEN "continue"
    ELSE IF f.service # "WriteProperty" THEN "continue"
    ELSE "true"

\* a client that made no exchange yet, or one whose invokeId is about to
\* wrap; no call is in progress
BACnetInit ==
    /\ \E id \in {1, 257 - MaxOps} :
        /\ bacnet = [invokeId |-> id, datalinkReady |-> FALSE]
        /\ iog = [ops |-> 0,
                  aged |-> id # 1,   \* exchanges were made before
                  ids |-> <<>>]      \* the ids nextInvokeId returned
    /\ exchange = [pos |-> "idle", kind |-> "", invoke |-> 0, deadline |-> 0,
                   result |-> FALSE, rx |-> NoFrame, rxAt |-> 0]
    /\ now = 0
    /\ tp = <<>> /\ tpg = <<>>
    /\ clients = <<>> /\ remote = <<>> /\ PROGRAM_COUNT = 0
    /\ ImageIdle /\ ParseIdle /\ RefIdle /\ FBIdle

\* performRead or performWrite is called and runs up to its wait loop: it
\* returns false when the datalink cannot be set up, when the NPDU or (for
\* a write) the value cannot be encoded, or when the send fails; the invoke
\* id is taken after the encodings and before the send
BACnetCall ==
    /\ exchange.pos \in {"idle", "done"}
    /\ iog.ops < MaxOps
    /\ \E kind \in {"read", "write"},
          stop \in {"datalink", "npdu", "value", "send", "wait"} :
        /\ stop = "datalink" => ~bacnet.datalinkReady
        /\ stop = "value" => kind = "write"
        /\ \E next \in {nextInvokeId(bacnet.invokeId)} :
            LET taken == stop \in {"send", "wait"}
            IN  /\ bacnet' = [invokeId |-> IF taken THEN next.invokeId
                                           ELSE bacnet.invokeId,
                              datalinkReady |-> stop # "datalink"]
                /\ exchange' = [pos |-> IF stop = "wait" THEN "waiting"
                                        ELSE "done",
                                kind |-> kind,
                                invoke |-> IF taken THEN next.current ELSE 0,
                                deadline |-> REQUEST_TIMEOUT,
                                result |-> FALSE, rx |-> NoFrame, rxAt |-> 0]
                /\ iog' = [iog EXCEPT
                             !.ops = iog.ops + 1,
                             !.ids = IF taken
                                     THEN Append(iog.ids, next.current)
                                     ELSE iog.ids]
        /\ now' = 0
    /\ UNCHANGED <<tp, tpg, clients, remote, PROGRAM_COUNT, imageVars,
                   parseVars, refVars, fbVars>>

\* one turn of the wait loop: the deadline has not passed, datalink_receive
\* blocks for up to 10 ms and the frame, if any, is examined
BACnetReceive ==
    /\ exchange.pos = "waiting"
    /\ now < exchange.deadline
    /\ \E d \in {0, ReceiveTimeout \div 2, ReceiveTimeout},
          f \in Frames(exchange.invoke) :
        /\ f = NoFrame => d = ReceiveTimeout
        /\ \E turn \in {IF exchange.kind = "read"
                        THEN performRead_turn(exchange.invoke, f)
                        ELSE performWrite_turn(exchange.invoke, f)} :
            exchange' = [exchange EXCEPT
                           !.pos = IF turn = "continue" THEN "waiting"
                                   ELSE "done",
                           !.result = (turn = "true"),
                           !.rx = f,
                           !.rxAt = now + d]
        /\ now' = now + d
    /\ UNCHANGED <<bacnet, iog, tp, tpg, clients, remote, PROGRAM_COUNT,
                   imageVars, parseVars, refVars, fbVars>>

\* the loop condition fails: the deadline has passed, the call returns false
BACnetTimeout ==
    /\ exchange.pos = "waiting"
    /\ now >= exchange.deadline
    /\ exchange' = [exchange EXCEPT !.pos = "done", !.result = FALSE]
    /\ UNCHANGED <<bacnet, iog, now, tp, tpg, clients, remote, PROGRAM_COUNT,
                   imageVars, parseVars, refVars, fbVars>>

BACnetNext == BACnetCall \/ BACnetReceive \/ BACnetTimeout

SpecBACnet == BACnetInit /\ [][BACnetNext]_vars

\* payloads a main may hand to mapIO: the descriptors above, descriptors that
\* share a module or a local address with them, local addresses in lower
\* case and in the M space, a protocol createClient does not know, and
\* malformed payloads
Payloads ==
    LET modbus(remoteAddress, size, local, pollTime) ==
            [form |-> "object", absent |-> {}, numeric |-> {},
             ModuleID |-> "192.168.9.17", Protocol |-> "MODBUS-TCP",
             RemoteAddress |-> remoteAddress, RemoteSize |-> size,
             InternalAddress |-> local, PollTime |-> pollTime]
        first == modbus("0", 1, <<"%", "I", "X", "0", ".", "0">>, 2)
        second == modbus("16", 1, <<"%", "Q", "X", "0", ".", "0">>, 3)
    IN  Descriptors \cup
        { modbus("7", 8, <<"%", "I", "X", "0", ".", "0">>, 5),
          modbus("8", 8, <<"%", "I", "X", "1">>, 2),
          modbus("17", 1, <<"%", "q", "x", "0", ".", "1">>, 3),
          modbus("40", 1, <<"%", "M", "X", "0", ".", "0">>, 2),
          [first EXCEPT !.Protocol = "OPCUA",
                        !.InternalAddress = <<"%", "I", "X", "0", ".", "2">>],
          [first EXCEPT !.ModuleID = "10.0.0.5", !.Protocol = "BACNET",
                        !.InternalAddress = <<"%", "I", "X", "0", ".", "3">>],
          [second EXCEPT !.form = "garbage"],
          [second EXCEPT !.absent = {"PollTime"}],
          [second EXCEPT !.numeric = {"RemoteSize"}] }

\* program start of a main whose mapIO calls are followed one by one
MapInit ==
    /\ clients = <<>>
    /\ remote = [log |-> <<>>]
    /\ iog = [history |-> <<>>]   \* the payload of every mapIO call so far,
                                  \* and the registry the call found
    /\ now = 0 /\ tp = <<>> /\ tpg = <<>>
    /\ PROGRAM_COUNT = 0
    /\ ImageIdle /\ ParseIdle /\ RefIdle /\ FBIdle
    /\ BACIdle

\* main calls mapIO(map) with one of the payloads
RegisterIO ==
    \E payload \in Payloads :
        /\ Len(iog.history) < MaxCalls
        /\ clients' = mapIO(clients, payload, now)
        /\ iog' = [iog EXCEPT !.history =
                      Append(iog.history,
                             [payload |-> payload, before |-> clients])]
        /\ UNCHANGED <<bacVars, remote, now, tp, tpg, PROGRAM_COUNT, imageVars,
                       parseVars, refVars, fbVars>>

MapNext == RegisterIO

SpecMap == MapInit /\ [][MapNext]_vars

\* C19: in poll on a connected client a mapping is polled in a tick exactly
\* when now - lastPoll >= pollInterval, so also when the two are equal.
C19_DueAtInterval ==
    iog.called
    => \A e \in iog.examined :
         e.polled <=> (e.checkedAt - e.lastPollBefore >= e.interval)

\* the requests issued for the mapping of client c with local address a
PollsOf(c, a) ==
    { i \in DOMAIN remote.log :
        remote.log[i].client = c /\ remote.log[i].local = a }

\* the mappings of the registry, as pairs of client and mapping number
Mappings ==
    { cm \in (DOMAIN clients) \X (1..MaxMaps) :
        cm[2] \in DOMAIN clients[cm[1]].mappings }

\* the least whole number that is at least n / d
CeilDiv(n, d) == (n + d - 1) \div d

\* C20: a mapping with pollInterval P > 0 is polled (a remote read or write
\* is issued for it) at most ceil(dt / P) times in any time window of
\* length dt >= 1 ms, here the closed window from s to s + dt.
C20_PollRate ==
    \A cm \in Mappings :
        LET map == clients[cm[1]].mappings[cm[2]]
            polls == PollsOf(cm[1], map.localAddress)
        IN  map.interval > 0
            => \A i \in polls : \A dt \in 1..(MaxWait + 1) :
                 Cardinality({ j \in polls :
                                 /\ remote.log[j].at >= remote.log[i].at
                                 /\ remote.log[j].at <= remote.log[i].at + dt })
                   <= CeilDiv(dt, map.interval)

\* C20 witness: a mapping was polled twice, the second time as soon as the
\* code allows it
C20_Witness ==
    \E cm \in Mappings :
        LET map == clients[cm[1]].mappings[cm[2]]
            polls == PollsOf(cm[1], map.localAddress)
        IN  \E i \in polls, j \in polls :
                /\ i < j
                /\ remote.log[j].at = remote.log[i].at + map.interval + 1

\* C21: a superviseIO call issues no remote read or write for a client that
\* is disconnected when the call begins, writes MEMORY for no such client and
\* moves the lastPoll of none of its mappings; and any two connect() calls on
\* one client are at least 15,000 ms apart.
C21_DisconnectedNotPolled ==
    /\ [][iog'.scans = iog.scans + 1
          => \A c \in DOMAIN clients :
               ~clients[c].connected
               => /\ \A i \in (Len(remote.log) + 1)..Len(remote'.log) :
                       remote'.log[i].client # c
                  /\ \A w \in iog'.stored : w.client # c
                  /\ \A i \in DOMAIN clients[c].mappings :
                       clients'[c].mappings[i].lastPoll
                         = clients[c].mappings[i].lastPoll]_vars
    /\ [](\A a \in iog.attempts, b \in iog.attempts :
             (a.client = b.client /\ a.at < b.at)
             => b.at - a.at >= ConnectRetry)

\* C21 witness: connect() was called a second time on a client that has
\* mappings, and the call that did so left the client's mappings alone
C21_Witness ==
    /\ iog.called
    /\ \E a \in iog.attempts, b \in iog.attempts :
          /\ a.client = b.client /\ a.at < b.at
          /\ b.client \in iog.connects
          /\ clients[b.client].mappings # <<>>
          /\ \A i \in DOMAIN clients[b.client].mappings :
               clients[b.client].mappings[i].lastPoll = 0

\* C22: when the adapter call for a due mapping fails (returns false or
\* throws), MEMORY is not written for that mapping (and not at all when every
\* adapter call of the superviseIO call failed), the mapping's lastPoll is
\* the time of the poll, and every mapping of the same client was examined
\* in that superviseIO call.
C22_AdapterFailure ==
    /\ [](iog.called /\ ~iog.crashed
          => \A e \in iog.examined :
               (e.polled /\ e.adapter \in {"fail", "throw"})
               => /\ \A w \in iog.stored :
                       ~(w.client = e.client /\ w.local = e.local)
                  /\ \A i \in DOMAIN clients[e.client].mappings :
                       LET map == clients[e.client].mappings[i]
                       IN  /\ map.localAddress = e.local
                              => map.lastPoll = e.polledAt
                           /\ \E x \in iog.examined :
                                /\ x.client = e.client
                                /\ x.local = map.localAddress)
    /\ [][(/\ iog'.scans = iog.scans + 1
           /\ \A e \in iog'.examined :
                e.polled => e.adapter \in {"fail", "throw"})
          => mem' = mem]_vars

\* C22 witness: the adapter threw for the first mapping of a client, and the
\* second mapping of that client was polled in the same call
C22_Witness ==
    /\ iog.called
    /\ \E e \in iog.examined, x \in iog.examined :
          /\ e.client = x.client
          /\ e.polled /\ e.adapter = "throw"
          /\ clients[e.client].mappings[1].localAddress = e.local
          /\ clients[e.client].mappings[1].lastPoll = e.polledAt
          /\ Len(clients[e.client].mappings) = 2
          /\ clients[e.client].mappings[2].localAddress = x.local
          /\ x.polled /\ x.polledAt >= e.polledAt

C25_WidthDispatch ==
    (iog.called /\ ~iog.crashed)
    => \A e \in iog.examined :
         \A i \in DOMAIN clients[e.client].mappings :
           LET map == clients[e.client].mappings[i]
               issued(kind) ==
                   \E k \in DOMAIN remote.log :
                       /\ remote.log[k].client = e.client
                       /\ remote.log[k].local = e.local
                       /\ remote.log[k].kind = kind
                       /\ remote.log[k].at = e.polledAt
           IN  (/\ map.localAddress = e.local
                /\ e.polled
                /\ map.width \in {1, 8, 16, 32, 64})
               => IF map.direction = "Output" THEN issued("write")
                  ELSE /\ issued("read")
                       /\ e.adapter \in {"low", "high"}
                          => [client |-> e.client, local |-> e.local]
                               \in iog.stored

\* C23: in every turn of the main loop every Input poll comes before the
\* user program runs and every Output poll comes after the user program of
\* the same turn has run.
C23_InputsProgramOutputs ==
    \A i \in DOMAIN iog.events :
        /\ iog.events[i] = "read"
           => \A j \in 1..(i - 1) : iog.events[j] # "program"
        /\ iog.events[i] = "write"
           => \E j \in 1..(i - 1) : iog.events[j] = "program"

\* some client of the registry cs holds a mapping for the local address
Held(cs, localAddress) ==
    \E c \in DOMAIN cs : hasMapping(cs[c], localAddress)

\* C26: after two mapIO calls with well-formed descriptors of the same
\* ModuleID and of supported protocols, for different local addresses that
\* no client held before, the registry has exactly one client with that
\* ModuleID, and it holds mappings for both addresses.
C26_SharedClient ==
    \A i \in DOMAIN iog.history : \A j \in DOMAIN iog.history :
        LET a == iog.history[i].payload
            b == iog.history[j].payload
        IN  (/\ i < j
             /\ ~IOMap_throws(a) /\ ~IOMap_throws(b)
             /\ a.ModuleID = b.ModuleID
             /\ a.Protocol \in {"MODBUS-TCP", "OPCUA"}
             /\ b.Protocol \in {"MODBUS-TCP", "OPCUA"}
             /\ a.InternalAddress # b.InternalAddress
             /\ ~Held(iog.history[i].before, a.InternalAddress)
             /\ ~Held(iog.history[j].before, b.InternalAddress))
            => /\ Cardinality({ c \in DOMAIN clients :
                                 clients[c].moduleID = a.ModuleID }) = 1
               /\ \A c \in DOMAIN clients :
                    clients[c].moduleID = a.ModuleID
                    => /\ hasMapping(clients[c], a.InternalAddress)
                       /\ hasMapping(clients[c], b.InternalAddress)

\* C26 witness: the first two mapIO calls of the generated main were made
C26_Witness ==
    /\ Len(iog.history) >= 2
    /\ iog.history[1].payload.InternalAddress = <<"%", "I", "X", "0", ".", "0">>
    /\ iog.history[2].payload.InternalAddress = <<"%", "Q", "X", "0", ".", "0">>
    /\ ~IOMap_throws(iog.history[2].payload)
    /\ Len(clients) = 1
    /\ Len(clients[1].mappings) = 2

\* the last mapIO call
LastCall == iog.history[Len(iog.history)]

\* C27: after a mapIO call with a descriptor whose local address a client
\* already held, that client's mapping for the address carries the remote
\* address, width and poll interval of the new descriptor.
C27_MappingReplaced ==
    (/\ iog.history # <<>>
     /\ ~IOMap_throws(LastCall.payload)
     /\ Held(LastCall.before, LastCall.payload.InternalAddress))
    => \A c \in DOMAIN clients : \A i \in DOMAIN clients[c].mappings :
         LET map == clients[c].mappings[i]
         IN  map.localAddress = LastCall.payload.InternalAddress
             => /\ map.remoteAddress = LastCall.payload.RemoteAddress
                /\ map.width = LastCall.payload.RemoteSize
                /\ map.interval = LastCall.payload.PollTime

\* the protocol name of the client createClient makes for a descriptor
ClientProtocol(protocol) ==
    IF protocol = "OPCUA" THEN IOClient("opcua").protocol
    ELSE IOClient(protocol).protocol

\* C28: a mapIO call with a well-formed descriptor of a supported protocol
\* whose (moduleID, protocol) pair matches no client registers a new client
\* of that protocol holding the mapping, and no client ever holds a mapping
\* whose descriptor names another protocol than the client's.
C28_ClientPerProtocol ==
    /\ (/\ iog.history # <<>>
        /\ ~IOMap_throws(LastCall.payload)
        /\ LastCall.payload.Protocol \in {"MODBUS-TCP", "OPCUA"}
        /\ \A c \in DOMAIN LastCall.before :
             ~(/\ LastCall.before[c].moduleID = LastCall.payload.ModuleID
               /\ LastCall.before[c].protocol
                    = ClientProtocol(LastCall.payload.Protocol)))
       => /\ Len(clients) = Len(LastCall.before) + 1
          /\ clients[Len(clients)].protocol
               = ClientProtocol(LastCall.payload.Protocol)
          /\ hasMapping(clients[Len(clients)],
                        LastCall.payload.InternalAddress)
    /\ \A c \in DOMAIN clients : \A i \in DOMAIN clients[c].mappings :
         ClientProtocol(clients[c].mappings[i].protocol) = clients[c].protocol

\* C29: a mapping's direction is Output exactly when parseAddress puts its
\* local address in the Q space, whatever the case of the letters.
C29_DirectionFromSpace ==
    \A c \in DOMAIN clients : \A i \in DOMAIN clients[c].mappings :
        LET map == clients[c].mappings[i]
            parts == parseAddress(map.localAddress)
        IN  (map.direction = "Output")
            <=> (~parts.thrown /\ parts.space = SpaceQ)

\* C30: a mapIO call with a malformed payload (not JSON, not an object, a
\* required member absent or not a string) returns with the registry, and
\* so every client's mappings, as the call found them.
C30_MalformedPayload ==
    \A h \in DOMAIN iog.history :
        IOMap_throws(iog.history[h].payload)
        => IF h < Len(iog.history) THEN iog.history[h + 1].before
                                          = iog.history[h].before
           ELSE clients = iog.history[h].before

\* C30 witness: a payload that lacks PollTime arrived when the registry held
\* a client for its module
C30_Witness ==
    /\ iog.history # <<>>
    /\ LastCall.payload.form = "object"
    /\ LastCall.payload.absent = {"PollTime"}
    /\ \E c \in DOMAIN LastCall.before :
         LastCall.before[c].moduleID = LastCall.payload.ModuleID
    /\ clients = LastCall.before

\* C31: every turn of the generated scan loop, a turn in which superviseIO or
\* the user program raised an exception included, increases PROGRAM_COUNT by
\* exactly 1, the count going back to 0 only at the largest 64-bit value
C31_CountEveryCycle ==
    [][iog'.scans = iog.scans + 1
       => \/ PROGRAM_COUNT' = PROGRAM_COUNT + 1
          \/ /\ PROGRAM_COUNT' = 0
             /\ PROGRAM_COUNT \in {UINT64_MAX - 1, UINT64_MAX}]_vars

\* C32: over the exchanges of one BACnet client nextInvokeId never returns 0,
\* the first id of a new client is 1, each id is the one before plus 1 except
\* that 255 is followed by 1, and two exchanges in a row never use one id
C32_InvokeIds ==
    /\ \A i \in DOMAIN iog.ids : iog.ids[i] \in 1..255
    /\ (~iog.aged /\ iog.ids # <<>>) => iog.ids[1] = 1
    /\ \A i \in DOMAIN iog.ids :
        i > 1 => /\ iog.ids[i] = IF iog.ids[i - 1] = 255 THEN 1
                                 ELSE iog.ids[i - 1] + 1
                 /\ iog.ids[i] # iog.ids[i - 1]

\* the id 255 was used and the exchange after it took its id
C32_Witness ==
    /\ Len(iog.ids) >= 2
    /\ iog.ids[Len(iog.ids) - 1] = 255
    /\ bacnet.invokeId = 2

\* the ack the call in progress waits for
Matching(f) ==
    /\ f.invoke = exchange.invoke
    /\ IF exchange.kind = "read"
       THEN f.type = "complex-ack" /\ f.service = "ReadProperty"
       ELSE f.type = "simple-ack" /\ f.service = "WriteProperty"

\* C33: performRead (performWrite) returns success only if a complex-ack
\* (simple-ack) with the request's invoke id and service was received before
\* the deadline; a received frame of another PDU type, invoke id or service
\* does not end the wait; without a matching ack the call returns failure
C33_MatchingAck ==
    /\ []((exchange.pos = "done" /\ exchange.result)
          => (Matching(exchange.rx) /\ exchange.rxAt < exchange.deadline))
    /\ [][(exchange.pos = "waiting" /\ now < exchange.deadline
           /\ exchange'.rx \notin {NoFrame, ShortFrame}
           /\ ~Matching(exchange'.rx))
          => exchange'.pos = "waiting"]_vars
    /\ []((exchange.pos = "done" /\ ~Matching(exchange.rx))
          => ~exchange.result)

\* C33, amended: success is returned only on a matching ack handed over by
\* a datalink_receive call that was entered before the deadline, so received
\* less than the 10 ms receive timeout after it; a received frame of another
\* PDU type, invoke id or service does not end the wait; without a matching
\* ack the call returns failure
C33_MatchingAckInLastReceive ==
    /\ []((exchange.pos = "done" /\ exchange.result)
          => /\ Matching(exchange.rx)
             /\ exchange.rxAt < exchange.deadline + ReceiveTimeout)
    /\ [][(exchange.pos = "waiting" /\ now < exchange.deadline
           /\ exchange'.rx \notin {NoFrame, ShortFrame}
           /\ ~Matching(exchange'.rx))
          => (exchange'.pos = "waiting" /\ ~exchange'.result)]_vars
    /\ []((exchange.pos = "done" /\ ~Matching(exchange.rx))
          => ~exchange.result)
    /\ [][(exchange.pos = "waiting" /\ now >= exchange.deadline)
          => (exchange'.pos = "done" /\ ~exchange'.result)]_vars

\* a read succeeded on a complex-ack that came in after the deadline
C33_Witness ==
    /\ exchange.pos = "done"
    /\ exchange.kind = "read"
    /\ exchange.result
    /\ exchange.rx.type = "complex-ack"
    /\ exchange.rxAt > exchange.deadline

\* C34: an edge-detecting block ends every evaluation with its stored
\* previous input equal to the input sampled in that evaluation; stated here
\* for TP, whose stored input is lastIN (R_TRIG, F_TRIG, CTU, CTD and CTUD
\* assign theirs in the last statement of operator())
C34_PreviousInputStored ==
    tpg.evaluated => tp.lastIN = tp.IN_

\* C35: after any sequence of mapIO calls each local address is held by at
\* most one mapping of the registry: no two clients, and no two mappings of
\* one client, hold the same local address
C35_OneHolder ==
    \A c \in DOMAIN clients : \A d \in DOMAIN clients :
        \A i \in DOMAIN clients[c].mappings :
            \A j \in DOMAIN clients[d].mappings :
                clients[c].mappings[i].localAddress
                    = clients[d].mappings[j].localAddress
                => (c = d /\ i = j)

\* C36: distinct byte offsets below 7168 of the M space are distinct storage:
\* a writeBit on %MXa.b with b < 8 never changes the byte read at a
\* byte-granular M address with another offset
C36_MBytesDistinct ==
    [][ ( /\ Called
          /\ last'.op = "writeBit"
          /\ last'.outcome = "ok"
          /\ ~parseAddress(last'.addr).thrown
          /\ parseAddress(last'.addr).space = SpaceM
          /\ parseAddress(last'.addr).width = 8
          /\ parseAddress(last'.addr).bit \in 0..7
          /\ parseAddress(last'.addr).index < SpaceBytes(SpaceM) )
        => \A b \in MAddresses :
             ( /\ parseAddress(b).width = 8
               /\ parseAddress(b).bit = -1
               /\ parseAddress(b).index < SpaceBytes(SpaceM)
               /\ parseAddress(b).index # parseAddress(last'.addr).index )
             => readByte(mem', bigEndian, b).ret
                  = readByte(mem, bigEndian, b).ret ]_vars

\* C37: connect() is called on no client while elapsed() is below 15,000: a
\* client registered at startup is disconnected and unpolled after every
\* superviseIO call made before that time
C37_NoEarlyConnect ==
    /\ \A a \in iog.attempts : a.at >= ConnectRetry
    /\ now < ConnectRetry
       => /\ \A c \in DOMAIN clients :
               /\ ~clients[c].connected
               /\ \A i \in DOMAIN clients[c].mappings :
                    clients[c].mappings[i].lastPoll = 0
          /\ remote.log = <<>>
          /\ iog.connects = {}
          /\ mem = ZeroMemory

\* superviseIO was called in the last millisecond before 15,000 with a
\* client in the registry
C37_Witness ==
    /\ iog.called
    /\ now = ConnectRetry - 1
    /\ clients # <<>>
    /\ \A c \in DOMAIN clients : clients[c].mappings # <<>>

\* C38: a CTUD evaluation with R and LD false in which CU and CD both show a
\* rising edge leaves CV as it was, for every 16-bit CV
C38_BothEdgesKeepCV ==
    (/\ fb.kind = "CTUD"
     /\ fbg.evaluated
     /\ ~fbg.pre.R /\ ~fbg.pre.LD
     /\ fbg.pre.CU /\ ~fbg.pre.lastCU
     /\ fbg.pre.CD /\ ~fbg.pre.lastCD)
    => fb.CV = fbg.pre.CV

\* C39: a CTU whose PV is held constant and whose R is false on every
\* evaluation keeps Q true once Q has become true, whatever the number of
\* rising edges on CU
C39_QStaysTrue ==
    (/\ fb.kind = "CTU"
     /\ fbg.evaluated
     /\ fbg.evals >= 2
     /\ fbg.noReset
     /\ fbg.pre.PV = fbg.prev.PV
     /\ fbg.pre.Q)
    => fb.Q

\* C40: a superviseIO call issues only remote writes for Output mappings and
\* only remote reads for Input mappings, and every byte of MEMORY it changes
\* belongs to the local address of an Input mapping (for a width-1 mapping
\* only the mapped bit changes); so polling an Output mapping leaves the
\* image alone
C40_OneDirection ==
    [][(iog'.scans = iog.scans + 1 /\ ~iog'.crashed)
       => /\ \A k \in (Len(remote.log) + 1)..Len(remote'.log) :
               \A c \in DOMAIN clients : \A i \in DOMAIN clients[c].mappings :
                   (/\ c = remote'.log[k].client
                    /\ clients[c].mappings[i].localAddress
                         = remote'.log[k].local)
                   => remote'.log[k].kind
                        = IF clients[c].mappings[i].direction = "Output"
                          THEN "write" ELSE "read"
          /\ \A a \in (DOMAIN mem) \cup (DOMAIN mem') :
               ByteAt(mem', a) # ByteAt(mem, a)
               => \E c \in DOMAIN clients :
                  \E i \in DOMAIN clients[c].mappings :
                    LET map == clients[c].mappings[i]
                        parts == parseAddress(map.localAddress)
                        ptr == getMemoryByte(parts.space, parts.index)
                    IN  /\ map.direction = "Input"
                        /\ IF map.width = 1
                           THEN /\ a = ptr + (parts.bit \div 8)
                                /\ WithBit(ByteAt(mem', a), parts.bit % 8,
                                           BitOf(ByteAt(mem, a),
                                                 parts.bit % 8))
                                     = ByteAt(mem, a)
                           ELSE a \in ptr..(ptr + (map.width \div 8) - 1)]_vars

\* one superviseIO call pushed an Output mapping to its module and stored
\* the value read for an Input mapping
C40_Witness ==
    /\ iog.called /\ ~iog.crashed
    /\ iog.stored # {}
    /\ mem # ZeroMemory
    /\ \E e \in iog.examined :
          /\ e.polled
          /\ \E c \in DOMAIN clients : \E i \in DOMAIN clients[c].mappings :
                /\ c = e.client
                /\ clients[c].mappings[i].localAddress = e.local
                /\ clients[c].mappings[i].direction = "Output"
    /\ \E k \in DOMAIN remote.log : remote.log[k].kind = "write"

====
